---------------------------- MODULE Spec2Model ----------------------------
(***************************************************************************)
(* OmniStream Studio (cgfarm/CGF-Podcast): the PCM-to-WAV encoder of       *)
(* src/services/geminiService.ts, the stream preview of src/App.tsx with   *)
(* the webcam hook of src/hooks/useWebcam.ts, and the generation workflow  *)
(* of src/App.tsx.                                                         *)
(*                                                                         *)
(* Specifications sharing the module:                                      *)
(*   SpecWav   the encoder applied to bounded PCM inputs;                  *)
(*   SpecQuant the encoder's sample loop applied to bounded float samples; *)
(*   Spec      the application state, the webcam hook and the preview's   *)
(*             two effects, with the media elements they drive;            *)
(*   SpecSeek  the position-update handler at every pair of positions;     *)
(*   SpecGen   handleGenerateAnimation and handleGenerateAudio with the     *)
(*             service calls they make;                                    *)
(*   SpecPoll  the same workflow with the fairness of its timers and       *)
(*             continuations, for the poll loop's progress;                *)
(*   SpecVid   handleGenerateVideo with the service call it makes;         *)
(*   SpecStudio the handlers of App with the entries they log, the stream  *)
(*             flag and the overlays;                                      *)
(*   SpecLog   the handlers that log, with handleGenerateAudio and its     *)
(*             request;                                                    *)
(*   SpecCam   the webcam hook with its button clicked at any time.        *)
(***************************************************************************)
EXTENDS Integers, Sequences, FiniteSets

VARIABLES
    \* ---- createAudioUrl (geminiService.ts) ----
    decodedBytes,     \* the bytes decode(base64Audio) returns
    wavStatus,        \* "pending" | "ok" | the name of the error thrown
    wavBytes,         \* the bytes of the Blob handed to URL.createObjectURL
    floatSample,      \* channels[i] in the sample loop, over FloatDen
    sampleBytes,      \* the two bytes view.setInt16 stored for it
    \* ---- App state (App.tsx 409-424) ----
    streamSource,     \* StreamSource
    currentVideoUrl,  \* string | null
    currentAudioUrl,  \* string | null
    videoLibrary,     \* VideoAsset[]
    animationLibrary, \* TalkingAnimationAsset[]
    isStreaming,      \* App.tsx 409
    activeOverlayUrl, \* App.tsx 413: string | null
    overlayLibrary,   \* App.tsx 418: OverlayAsset[]
    history,          \* App.tsx 420: HistoryItem[]
    \* ---- useWebcam (useWebcam.ts) ----
    stream,           \* MediaStream | null (React state)
    webcamStatus,     \* 'IDLE' | 'REQUESTING' | 'STREAMING' | 'ERROR'
    streamRef,        \* streamRef.current
    pendingMedia,     \* getUserMedia promises not yet settled
    liveStreams,      \* acquired streams whose tracks are not stopped
    mounted,          \* whether App (with useWebcam and StreamPreview) is
                      \* mounted
    \* ---- StreamPreview (App.tsx 46-129) ----
    preview,          \* the video element, the audio elements, the listeners
    \* ---- App and CreatePanel state used by generation (App.tsx) ----
    hasApiKey,        \* App.tsx 424
    keyChecked,       \* whether the mount effect's key check has answered
    loading,          \* App.tsx 421
    ttsText,          \* App.tsx 181
    imageFile,        \* App.tsx 182
    \* ---- handleGenerateAnimation and the calls it makes ----
    genPc,            \* where the handler stands: "idle" or the await it is at
    genFlow,          \* the invocation the handler is running (0: none yet)
    flowCount,        \* invocations started so far
    speechCall,       \* per invocation, the state of speechPromise
    videoCall,        \* per invocation, the state of generateVideoFromImage
    flowResult,       \* per invocation, how the handler ended
    videoAnswer,      \* per invocation, the service's last answer to
                      \* generateVideos / getVideosOperation
    \* ---- handleGenerateAudio (App.tsx 232-241) ----
    alertShown,       \* the alert() of a form check now on screen
    audioCall,        \* the state of the handler's generateSpeechFromText
    audioLibrary      \* App.tsx 416: AudioAsset[]

wavVars == <<decodedBytes, wavStatus, wavBytes, floatSample, sampleBytes>>

studioVars == <<isStreaming, activeOverlayUrl, overlayLibrary, history>>

appVars == <<streamSource, currentVideoUrl, currentAudioUrl,
             videoLibrary, animationLibrary, studioVars>>

camVars == <<stream, webcamStatus, streamRef, pendingMedia, liveStreams,
             mounted>>

genVars == <<hasApiKey, keyChecked, loading, ttsText, imageFile, genPc,
             genFlow, flowCount, speechCall, videoCall, flowResult,
             videoAnswer, alertShown, audioCall, audioLibrary>>

audVars == <<alertShown, audioCall, audioLibrary>>

vars == <<wavVars, appVars, camVars, preview, genVars>>

(***************************************************************************)
(* PCM-to-WAV encoder: src/services/geminiService.ts                       *)
(***************************************************************************)

\* Most samples an input holds.
MaxSamples == 4

\* The sample values inputs are drawn from: zero, the smallest magnitudes,
\* the mid-scale values of the spec's scenario and both extremes.
SampleChoices == {0, 1, -1, 16384, -16384, 32767, -32768}

\* new AudioContext({ sampleRate: 24000 }).sampleRate
SampleRate == 24000

Pow2(k) == 2 ^ k

\* The two little-endian bytes of a signed 16-bit sample, as the service
\* delivers them.
PcmBytes(s) == LET u == s % Pow2(16) IN <<u % 256, u \div 256>>

RECURSIVE PcmOf(_)
PcmOf(samples) ==
    IF samples = <<>> THEN <<>>
    ELSE PcmBytes(Head(samples)) \o PcmOf(Tail(samples))

\* new Int16Array(data.buffer): element i (from 1) of the view.
Int16At(bytes, i) ==
    LET u == bytes[2 * i - 1] + 256 * bytes[2 * i]
    IN  IF u >= Pow2(15) THEN u - Pow2(16) ELSE u

\* decodeAudioData: channelData[i] = dataInt16[i] / 32768.0.  A float sample
\* is held as its numerator over 32768; the quotient of a 16-bit integer by
\* 2^15 is exact in a Float32Array, so no rounding is lost.
FloatDen == 32768

decodeAudioData(bytes) ==
    [i \in 1 .. (Len(bytes) \div 2) |-> Int16At(bytes, i)]

\* The sample taken as it is.
ClampNothing(num) == num

\* Math.max(-1, Math.min(1, x)) on a numerator over FloatDen.
Clamp(num) ==
    IF num > FloatDen THEN FloatDen
    ELSE IF num < -FloatDen THEN -FloatDen ELSE num

\* ToInt16 of a rational num/den: truncate toward zero, then wrap to 16 bits.
TruncDiv(num, den) ==
    IF num >= 0 THEN num \div den ELSE -((-num) \div den)

\* s < 0 ? s * 0x8000 : s * 0x7FFF, as setInt16 stores it.
Quantize(num) ==
    LET s == Clamp(num)
    IN  IF s < 0 THEN TruncDiv(s * 32768, FloatDen)
        ELSE TruncDiv(s * 32767, FloatDen)

\* DataView.setUint16 / setInt16 / setUint32 with littleEndian = true.
SetUint16(v) == LET u == v % Pow2(16) IN <<u % 256, u \div 256>>

SetInt16(v) == SetUint16(v)

\* Byte k of v modulo 2^32 is (v \div 256^k) % 256.
SetUint32(v) ==
    <<v % 256, (v \div 256) % 256, (v \div 65536) % 256,
      (v \div 16777216) % 256>>

\* writeString: the char codes of the four tags.
TagRIFF == <<82, 73, 70, 70>>
TagWAVE == <<87, 65, 86, 69>>
TagFmt  == <<102, 109, 116, 32>>
TagData == <<100, 97, 116, 97>>

\* The value written at offset 4.
RiffChunkSizeOfWholeFile(n) == 44 + n * 2

RiffChunkSize(n) == 36 + n * 2

\* The value written at offset 28.
ByteRateOfOneByteSamples(rate) == rate

ByteRate(rate) == rate * 2

\* Lines 45-57: the header for a channel of n samples.
WavHeader(n) ==
    TagRIFF \o SetUint32(RiffChunkSize(n)) \o TagWAVE
    \o TagFmt \o SetUint32(16) \o SetUint16(1) \o SetUint16(1)
    \o SetUint32(SampleRate) \o SetUint32(ByteRate(SampleRate))
    \o SetUint16(2) \o SetUint16(16)
    \o TagData \o SetUint32(n * 2)

\* Lines 59-62: the sample loop.
RECURSIVE WavData(_, _)
WavData(channels, i) ==
    IF i > Len(channels) THEN <<>>
    ELSE SetInt16(Quantize(channels[i])) \o WavData(channels, i + 1)

\* The whole buffer of createAudioUrl for an even-length input.
WavOf(bytes) ==
    LET channels == decodeAudioData(bytes)
    IN  WavHeader(Len(channels)) \o WavData(channels, 1)

\* Inputs: up to MaxSamples samples, with or without a dangling odd byte.
PcmInputs ==
    LET seqs == UNION {[1 .. n -> SampleChoices] : n \in 0 .. MaxSamples}
    IN  {PcmOf(s) : s \in seqs} \cup {PcmOf(s) \o <<0>> : s \in seqs}

\* The buffer built whatever the input holds.
createAudioUrlUnchecked ==
    /\ wavStatus = "pending"
    /\ wavStatus' = "ok"
    /\ wavBytes' = WavOf(decodedBytes)
    /\ UNCHANGED <<decodedBytes, floatSample, sampleBytes,
                   appVars, camVars, preview, genVars>>

\* createAudioUrl(base64Audio): new Int16Array(buffer) throws a RangeError
\* when the byte length is odd (line 18) and createBuffer throws a
\* NotSupportedError for zero frames (line 20); otherwise the WAV buffer is
\* built.
createAudioUrl ==
    /\ wavStatus = "pending"
    /\ IF Len(decodedBytes) % 2 = 1
       THEN /\ wavStatus' = "RangeError"
            /\ wavBytes' = <<>>
       ELSE IF Len(decodedBytes) = 0
       THEN /\ wavStatus' = "NotSupportedError"
            /\ wavBytes' = <<>>
       ELSE /\ wavStatus' = "ok"
            /\ wavBytes' = WavOf(decodedBytes)
    /\ UNCHANGED <<decodedBytes, floatSample, sampleBytes,
                   appVars, camVars, preview, genVars>>

\* Largest magnitude of the float samples the sample loop is applied to, in
\* steps of 1/32: beyond 32 steps a sample is out of [-1, 1].
MaxFloat == 48

\* A Float32Array holds any float, not only the quotients decodeAudioData
\* stores: the grid of 1/32 steps, and the nearest neighbours of 0, 1 and -1
\* among the multiples of 1/32768.
FloatSamples ==
    {k * 1024 : k \in -MaxFloat .. MaxFloat}
        \cup {1, -1, 32767, -32767, 32769, -32769}

\* One turn of the sample loop (lines 60-61) on channels[i] = floatSample.
writeSample ==
    /\ sampleBytes = <<>>
    /\ sampleBytes' = SetInt16(Quantize(floatSample))
    /\ UNCHANGED <<decodedBytes, wavStatus, wavBytes, floatSample,
                   appVars, camVars, preview, genVars>>

(***************************************************************************)
(* Application state and libraries: src/App.tsx                            *)
(***************************************************************************)

\* Most assets the video library and the animation library hold.
MaxVideos == 1
MaxAnims == 2

WEBCAM == "WEBCAM"
VIDEO_LIBRARY == "VIDEO_LIBRARY"
ANIMATION == "ANIMATION"
StreamSource == {WEBCAM, VIDEO_LIBRARY, ANIMATION}

\* null, the '' of `currentVideoUrl || ''`, and the object URLs that
\* URL.createObjectURL hands out (each call a new one).
NoUrl == <<"null", 0>>
EmptySrc == <<"", 0>>
VideoUrl(k) == <<"video", k>>
AnimVideoUrl(k) == <<"animVideo", k>>
AnimAudioUrl(k) == <<"animAudio", k>>

VideoAsset(k) == [url |-> VideoUrl(k)]
TalkingAnimationAsset(k) ==
    [videoUrl |-> AnimVideoUrl(k), audioUrl |-> AnimAudioUrl(k)]

SeqToSet(q) == {q[i] : i \in 1 .. Len(q)}

(***************************************************************************)
(* The media elements of StreamPreview.  preview is a record:              *)
(*   srcObject, src, muted, loop, paused, currentTime   the <video>        *)
(*   overlay      the src of the overlay <img> (NoUrl: none is rendered)   *)
(*   onAir        whether the label reads ON AIR                           *)
(*   events       'play' / 'pause' events queued on the video element      *)
(*   listeners    per audio element, the handler sets (handlePlay,         *)
(*                handlePause, handleSeek closed over it) now attached     *)
(*   audioRef     audioRef.current (0 is null)                             *)
(*   audio        the <audio> elements by identity: src, paused,           *)
(*                currentTime                                              *)
(*   cleanup      the cleanup the sync effect last returned: the audio     *)
(*                element it closes over (0: it returned none)             *)
(*   playIssued   whether the last run of the binding effect called        *)
(*                videoEl.play()                                           *)
(*   staleAtAttach  the handler sets that were attached, and the audio     *)
(*                elements not paused at 0, at the moment the sync effect  *)
(*                last called addEventListener                             *)
(*   lastEvent    the video event the attached handlers ran for in the     *)
(*                preview's latest step (none if that step dispatched no   *)
(*                event to a handler), with the audio play calls made and  *)
(*                whether handleSeek assigned the audio position           *)
(*   videoRefused, audioRefused   the elements whose latest play call was  *)
(*                rejected and that have not been played, paused or        *)
(*                loaded since                                             *)
(* Positions are in tenths of a second.                                    *)
(***************************************************************************)

\* Audio element identities; an element that is detached, unreferenced,
\* paused and rewound is indistinguishable from a new one and is reused.
MaxAudioEls == 2
\* Queued video events.
MaxQueue == 2
\* Length of every clip, in tenths of a second; one step of playback plays
\* a clip to its end.
MediaDuration == 6
Tick == MediaDuration
\* handleSeek's 0.5 s.
DriftThreshold == 5

NoStream == 0
NoAudio == 0
AudioEls == 1 .. MaxAudioEls

BlankAudio == [src |-> NoUrl, paused |-> TRUE, currentTime |-> 0]
NoEvent == [type |-> "none", playCalls |-> 0, seeked |-> FALSE]

Abs(x) == IF x < 0 THEN -x ELSE x

RECURSIVE SumOver(_, _)
SumOver(f, S) ==
    IF S = {} THEN 0
    ELSE LET x == CHOOSE y \in S : TRUE IN f[x] + SumOver(f, S \ {x})

\* Handler sets attached to the video element.
Attached(d) == SumOver(d.listeners, AudioEls)

\* The media element load algorithm, run by every assignment to srcObject
\* or src: playback stops without a 'pause' event and the position rewinds.
Load(d) ==
    [d EXCEPT !.paused = TRUE, !.currentTime = 0, !.videoRefused = FALSE]

\* videoEl.play(): a rejected call (autoplay policy, device error) changes
\* nothing and its rejection is caught; an accepted one on a paused element
\* clears paused and queues 'play'.
VideoPlay(d, ok) ==
    IF ~d.paused THEN d
    ELSE IF ~ok THEN [d EXCEPT !.videoRefused = TRUE]
    ELSE [d EXCEPT !.paused = FALSE, !.events = Append(@, "play"),
                   !.videoRefused = FALSE]

\* A rejection that escapes its handler and takes the handlers with it.
AudioPlayRejectionDetaches(d, e, ok) ==
    IF ~d.audio[e].paused THEN d
    ELSE IF ~ok THEN [d EXCEPT !.audioRefused = @ \cup {e},
                               !.listeners[e] = 0,
                               !.cleanup = NoAudio]
    ELSE [d EXCEPT !.audio[e].paused = FALSE,
                   !.audio[e].currentTime =
                       IF @ >= MediaDuration THEN 0 ELSE @,
                   !.audioRefused = @ \ {e}]

\* audioEl.play() on element e: nothing to do while it plays; a rejected
\* call changes nothing and is caught; playback that had ended restarts
\* at 0.
AudioPlay(d, e, ok) ==
    IF ~d.audio[e].paused THEN d
    ELSE IF ~ok THEN [d EXCEPT !.audioRefused = @ \cup {e}]
    ELSE [d EXCEPT !.audio[e].paused = FALSE,
                   !.audio[e].currentTime =
                       IF @ >= MediaDuration THEN 0 ELSE @,
                   !.audioRefused = @ \ {e}]

\* audioEl.pause()
AudioPause(d, e) ==
    [d EXCEPT !.audio[e].paused = TRUE, !.audioRefused = @ \ {e}]

\* A binding effect whose webcam branch leaves the source URL in place.
BindingEffectKeepsSrc(d, str, source, videoUrl, ok) ==
    IF source = WEBCAM /\ str # NoStream
    THEN VideoPlay([Load(d) EXCEPT !.srcObject = str,
                                   !.muted = TRUE,
                                   !.playIssued = TRUE], ok)
    ELSE LET d1 == [Load(d) EXCEPT
                        !.srcObject = NoStream,
                        !.src = IF videoUrl # NoUrl THEN videoUrl ELSE EmptySrc,
                        !.muted = (source # ANIMATION),
                        !.playIssued = (videoUrl # NoUrl)]
         IN  IF videoUrl # NoUrl THEN VideoPlay(d1, ok) ELSE d1

\* Lines 50-67: the binding effect.
BindingEffect(d, str, source, videoUrl, ok) ==
    IF source = WEBCAM /\ str # NoStream
    THEN VideoPlay([Load(d) EXCEPT !.srcObject = str,
                                   !.src = EmptySrc,
                                   !.muted = TRUE,
                                   !.playIssued = TRUE], ok)
    ELSE LET d1 == [Load(d) EXCEPT
                        !.srcObject = NoStream,
                        !.src = IF videoUrl # NoUrl THEN videoUrl ELSE EmptySrc,
                        !.muted = (source # ANIMATION),
                        !.playIssued = (videoUrl # NoUrl)]
         IN  IF videoUrl # NoUrl THEN VideoPlay(d1, ok) ELSE d1

\* Lines 80-82: the three handlers, closed over audio element e.
handlePlay(d, e, ok) == AudioPlay(d, e, ok)

handlePause(d, e) == AudioPause(d, e)

\* A correction that already happens at the threshold.
SeekNeededAtThreshold(a, v) == Abs(a - v) >= DriftThreshold

\* Line 82: the condition of handleSeek.
SeekNeeded(a, v) == Abs(a - v) > DriftThreshold

handleSeek(d, e) ==
    IF SeekNeeded(d.audio[e].currentTime, d.currentTime)
    THEN [d EXCEPT !.audio[e].currentTime = d.currentTime]
    ELSE d

\* A cleanup that pauses and rewinds the audio but leaves the handlers on.
SyncCleanupKeepsHandlers(d) ==
    IF d.cleanup = NoAudio THEN d
    ELSE [AudioPause(d, d.cleanup) EXCEPT
              !.audio[d.cleanup].currentTime = 0,
              !.cleanup = NoAudio]

\* A cleanup that removes the handlers and pauses the audio where it is.
SyncCleanupNoRewind(d) ==
    IF d.cleanup = NoAudio THEN d
    ELSE [AudioPause(d, d.cleanup) EXCEPT
              !.listeners[d.cleanup] = @ - 1,
              !.cleanup = NoAudio]

\* Lines 90-98: the cleanup the sync effect returned.
SyncCleanup(d) ==
    IF d.cleanup = NoAudio THEN d
    ELSE LET e == d.cleanup
         IN  [AudioPause(d, e) EXCEPT !.listeners[e] = @ - 1,
                                      !.audio[e].currentTime = 0,
                                      !.cleanup = NoAudio]

\* The audio elements that are playing or not at position 0.
Unsettled(d) ==
    {e \in AudioEls : ~d.audio[e].paused \/ d.audio[e].currentTime # 0}

\* A sync effect that attaches the handlers and leaves the start of the
\* audio to the next 'play' event.
SyncEffectWaitsForPlay(d, source, ok) ==
    LET e == d.audioRef
    IN  IF e = NoAudio \/ source # ANIMATION
        THEN IF e # NoAudio
             THEN [AudioPause(d, e) EXCEPT !.audio[e].currentTime = 0,
                                           !.cleanup = NoAudio]
             ELSE [d EXCEPT !.cleanup = NoAudio]
        ELSE [d EXCEPT !.staleAtAttach =
                           [handlers |-> Attached(d),
                            audio |-> Unsettled(d)],
                       !.listeners[e] = @ + 1,
                       !.cleanup = e,
                       !.lastEvent = NoEvent]

\* Lines 69-88: the body of the sync effect.
SyncEffect(d, source, ok) ==
    LET e == d.audioRef
    IN  IF e = NoAudio \/ source # ANIMATION
        THEN IF e # NoAudio
             THEN [AudioPause(d, e) EXCEPT !.audio[e].currentTime = 0,
                                           !.cleanup = NoAudio]
             ELSE [d EXCEPT !.cleanup = NoAudio]
        ELSE LET d1 == [d EXCEPT !.staleAtAttach =
                                     [handlers |-> Attached(d),
                                      audio |-> Unsettled(d)],
                                 !.listeners[e] = @ + 1,
                                 !.cleanup = e,
                                 !.lastEvent = NoEvent]
             IN  IF ~d1.paused THEN handlePlay(d1, e, ok) ELSE d1

\* An element nothing refers to any more.
Garbage(d, e) ==
    /\ e # d.audioRef
    /\ e # d.cleanup
    /\ d.listeners[e] = 0
    /\ d.audio[e].paused
    /\ d.audio[e].currentTime = 0

FreeAudio(d) == {e \in AudioEls : Garbage(d, e)}

Collect(d) ==
    [d EXCEPT !.audio = [e \in AudioEls |->
                            IF Garbage(d, e) THEN BlankAudio ELSE d.audio[e]]]

\* Lines 111-113: the commit of the conditional <audio ref={audioRef}
\* src={currentAudioUrl} />.  A new element is mounted paused at 0; a changed
\* src attribute reloads the element; an element removed from the document
\* is paused by the browser.
RenderAudio(d, source, audioUrl) ==
    LET want == source = ANIMATION /\ audioUrl # NoUrl
        e == d.audioRef
    IN  IF want /\ e = NoAudio
        THEN LET n == CHOOSE x \in FreeAudio(d) :
                          \A y \in FreeAudio(d) : x <= y
             IN  [d EXCEPT !.audioRef = n,
                           !.audio[n] = [BlankAudio EXCEPT !.src = audioUrl]]
        ELSE IF want
        THEN IF d.audio[e].src = audioUrl THEN d
             ELSE [d EXCEPT !.audio[e] = [BlankAudio EXCEPT !.src = audioUrl],
                            !.audioRefused = @ \ {e}]
        ELSE IF e # NoAudio
        THEN [AudioPause(d, e) EXCEPT !.audioRef = NoAudio]
        ELSE d

\* Lines 46 and 495: the props of StreamPreview; the overlay and the
\* stream flag are those of the App state.
Props(str, source, videoUrl, audioUrl) ==
    [stream |-> str, source |-> source,
     currentVideoUrl |-> videoUrl, currentAudioUrl |-> audioUrl,
     activeOverlayUrl |-> activeOverlayUrl, isStreaming |-> isStreaming]

CurrentProps == Props(stream, streamSource, currentVideoUrl, currentAudioUrl)

\* A binding effect that runs again whenever the stream flag changes.
BindDepsWithFlag(p) ==
    <<p.stream, p.source, p.currentVideoUrl, p.isStreaming>>

\* Line 67 and line 100: the dependencies of the two effects.
BindDeps(p) == <<p.stream, p.source, p.currentVideoUrl>>

SyncDeps(p) == <<p.source, p.currentAudioUrl>>

\* A loop attribute set for library videos only.
LoopAttrOnlyLibrary(source) == source = VIDEO_LIBRARY

\* Line 107: loop={source !== StreamSource.WEBCAM}
LoopAttr(source) == source # WEBCAM

\* One render of StreamPreview with props p after props q: the DOM commit,
\* then the cleanups of the effects whose dependencies changed, then those
\* effects in declaration order.
Commit(d, q, p, vOk, aOk) ==
    LET bind == BindDeps(q) # BindDeps(p)
        sync == SyncDeps(q) # SyncDeps(p)
        d1 == RenderAudio([d EXCEPT !.loop = LoopAttr(p.source),
                                    !.overlay = p.activeOverlayUrl,
                                    !.onAir = p.isStreaming],
                          p.source, p.currentAudioUrl)
        d2 == IF sync THEN SyncCleanup(d1) ELSE d1
        d3 == IF bind
              THEN BindingEffect(d2, p.stream, p.source, p.currentVideoUrl, vOk)
              ELSE d2
        d4 == IF sync THEN SyncEffect(d3, p.source, aOk) ELSE d3
    IN  Collect([d4 EXCEPT !.lastEvent = NoEvent])

\* The elements as the first render (source = WEBCAM) creates them, before
\* any effect has run.
BlankPreview ==
    [srcObject |-> NoStream, src |-> EmptySrc, muted |-> FALSE,
     loop |-> LoopAttr(WEBCAM), overlay |-> NoUrl, onAir |-> FALSE,
     paused |-> TRUE, currentTime |-> 0, events |-> <<>>,
     listeners |-> [e \in AudioEls |-> 0], audioRef |-> NoAudio,
     audio |-> [e \in AudioEls |-> BlankAudio], cleanup |-> NoAudio,
     playIssued |-> FALSE,
     staleAtAttach |-> [handlers |-> 0, audio |-> {}],
     lastEvent |-> NoEvent, videoRefused |-> FALSE, audioRefused |-> {}]

\* The mount: both effects run once with the initial props.
MountedPreview ==
    SyncEffect(BindingEffect(BlankPreview, NoStream, WEBCAM, NoUrl, TRUE),
               WEBCAM, TRUE)

\* A state change of App re-renders StreamPreview with the new props.  A
\* mount needs an element identity and the effects' play calls room in the
\* event queue.  A play call an effect makes is accepted or rejected; an
\* effect that does not run makes none.
Rerender(p) ==
    /\ mounted
    /\ Len(preview.events) < MaxQueue
    /\ (p.source = ANIMATION /\ p.currentAudioUrl # NoUrl
            /\ preview.audioRef = NoAudio) => FreeAudio(preview) # {}
    /\ LET q == CurrentProps
           vOks == IF BindDeps(q) # BindDeps(p) THEN BOOLEAN ELSE {TRUE}
           aOks == IF SyncDeps(q) # SyncDeps(p) THEN BOOLEAN ELSE {TRUE}
       IN  preview' \in {Commit(preview, q, p, vOk, aOk) :
                             vOk \in vOks, aOk \in aOks}

(***************************************************************************)
(* Operations of App: src/App.tsx                                          *)
(***************************************************************************)

\* Lines 153-155: the three source buttons.
setStreamSource(source) ==
    /\ streamSource' = source
    /\ Rerender(Props(stream, source, currentVideoUrl, currentAudioUrl))
    /\ UNCHANGED <<currentVideoUrl, currentAudioUrl, videoLibrary,
                   animationLibrary, studioVars, camVars, wavVars, genVars>>

\* A selection of a video that leaves the narration of the animation
\* selected before in place.
selectVideoKeepsAudio(video) ==
    /\ currentVideoUrl' = video.url
    /\ streamSource' = VIDEO_LIBRARY
    /\ Rerender(Props(stream, VIDEO_LIBRARY, video.url, currentAudioUrl))
    /\ UNCHANGED <<currentAudioUrl, videoLibrary, animationLibrary,
                   isStreaming, activeOverlayUrl, overlayLibrary, camVars,
                   wavVars, genVars>>

\* Lines 453-455: the three state updates of handleSelectVideo and the
\* render they cause.
selectVideo(video) ==
    /\ currentVideoUrl' = video.url
    /\ currentAudioUrl' = NoUrl
    /\ streamSource' = VIDEO_LIBRARY
    /\ Rerender(Props(stream, VIDEO_LIBRARY, video.url, NoUrl))
    /\ UNCHANGED <<videoLibrary, animationLibrary, isStreaming,
                   activeOverlayUrl, overlayLibrary, camVars, wavVars,
                   genVars>>

\* Lines 460-462: the three state updates of handleSelectAnimation and the
\* render they cause.
selectAnimation(anim) ==
    /\ currentVideoUrl' = anim.videoUrl
    /\ currentAudioUrl' = anim.audioUrl
    /\ streamSource' = ANIMATION
    /\ Rerender(Props(stream, ANIMATION, anim.videoUrl, anim.audioUrl))
    /\ UNCHANGED <<videoLibrary, animationLibrary, isStreaming,
                   activeOverlayUrl, overlayLibrary, camVars, wavVars,
                   genVars>>

\* Line 448, the library update: a generated video arrives, with the
\* object URL made for it.
videoArrives ==
    /\ mounted
    /\ Len(videoLibrary) < MaxVideos
    /\ videoLibrary' = Append(videoLibrary, VideoAsset(Len(videoLibrary) + 1))
    /\ UNCHANGED <<streamSource, currentVideoUrl, currentAudioUrl,
                   animationLibrary, isStreaming, activeOverlayUrl,
                   overlayLibrary, camVars, wavVars, preview, genVars>>

\* Line 450, the library update.
setAnimationLibrary(asset) ==
    animationLibrary' = Append(animationLibrary, asset)

\* Line 450, the library update: a generated animation arrives, with the
\* two object URLs made for it.
animationArrives ==
    /\ mounted
    /\ Len(animationLibrary) < MaxAnims
    /\ setAnimationLibrary(TalkingAnimationAsset(Len(animationLibrary) + 1))
    /\ UNCHANGED <<streamSource, currentVideoUrl, currentAudioUrl,
                   videoLibrary, isStreaming, activeOverlayUrl,
                   overlayLibrary, camVars, wavVars, preview, genVars>>

(***************************************************************************)
(* The stream flag, the overlays and the history log: src/App.tsx          *)
(*                                                                         *)
(* The log is written by addHistoryItem and read by HistoryPanel only.     *)
(* SpecStudio and SpecLog follow it and take the handlers of App with the  *)
(* entries they log; the steps of the other specifications are the         *)
(* handlers' state updates and leave the log out.                          *)
(***************************************************************************)

\* Most overlays uploaded, and most entries of the log: a handler needs
\* room for the entry it logs.
MaxOverlays == 2
MaxHistory == 4

OverlayUrl(k) == <<"overlay", k>>
OverlayName(k) == <<"file", k>>

\* Lines 467-471 (types.ts 33-37).
OverlayAsset(k) == [name |-> OverlayName(k), url |-> OverlayUrl(k)]

\* Line 443 (types.ts 40-45).  A description is the sequence of its parts:
\* a text, and for an overlay's entry the overlay's name.
HistoryItem(type, description) == [type |-> type, description |-> description]

Room == Len(history) < MaxHistory

\* A log that keeps its latest entry only.
addHistoryItemKeepsLast(type, description) ==
    history' = <<HistoryItem(type, description)>>

\* Lines 442-444.
addHistoryItem(type, description) ==
    history' = Append(history, HistoryItem(type, description))

(***************************************************************************)
(* useWebcam: src/hooks/useWebcam.ts                                       *)
(***************************************************************************)

\* getUserMedia calls in flight, and stream identities; a stream whose
\* tracks are stopped and that nothing refers to is reused.
MaxPending == 1
MaxStreams == 1

Streams == 1 .. MaxStreams

\* The same for the specification of the hook alone, where the button is
\* clicked again while a request is pending.
MaxRequests == 2
MaxCaptures == 2

Captures == 1 .. MaxCaptures

FreeAmong(pool) ==
    {s \in pool : /\ s \notin liveStreams
                  /\ s # stream
                  /\ s # streamRef
                  /\ s # preview.srcObject}

\* Lines 12-14, up to the await; reached through handleWebcamToggle
\* (App.tsx 142-148) when the status is not STREAMING, a pending request
\* or not.
startWebcamWithin(limit) ==
    /\ mounted
    /\ webcamStatus # "STREAMING"
    /\ pendingMedia < limit
    /\ webcamStatus' = "REQUESTING"
    /\ pendingMedia' = pendingMedia + 1
    /\ UNCHANGED <<stream, streamRef, liveStreams, mounted, appVars, wavVars,
                   preview, genVars>>

startWebcam == startWebcamWithin(MaxPending)

\* Lines 16-22: getUserMedia resolves with a new stream of the pool.  After
\* the unmount the continuation still runs: it stores the stream in the
\* ref, and the two state setters do nothing.
getUserMediaResolvedFrom(pool) ==
    /\ pendingMedia > 0
    /\ FreeAmong(pool) # {}
    /\ LET mediaStream == CHOOSE s \in FreeAmong(pool) :
                              \A t \in FreeAmong(pool) : s <= t
       IN  /\ streamRef' = mediaStream
           /\ liveStreams' = liveStreams \cup {mediaStream}
           /\ IF mounted
              THEN /\ stream' = mediaStream
                   /\ webcamStatus' = "STREAMING"
                   /\ Rerender(Props(mediaStream, streamSource,
                                     currentVideoUrl, currentAudioUrl))
              ELSE UNCHANGED <<stream, webcamStatus, preview>>
    /\ pendingMedia' = pendingMedia - 1
    /\ UNCHANGED <<mounted, appVars, wavVars, genVars>>

getUserMediaResolved == getUserMediaResolvedFrom(Streams)

\* Lines 23-27: getUserMedia rejects.
getUserMediaRejected ==
    /\ pendingMedia > 0
    /\ webcamStatus' = IF mounted THEN "ERROR" ELSE webcamStatus
    /\ pendingMedia' = pendingMedia - 1
    /\ UNCHANGED <<stream, streamRef, liveStreams, mounted, appVars, wavVars,
                   preview, genVars>>

\* A stop that drops the stream and leaves its tracks running.
stopWebcamKeepsTracks ==
    /\ mounted
    /\ webcamStatus = "STREAMING"
    /\ IF streamRef # NoStream
       THEN /\ streamRef' = NoStream
            /\ stream' = NoStream
            /\ webcamStatus' = "IDLE"
            /\ Rerender(Props(NoStream, streamSource,
                              currentVideoUrl, currentAudioUrl))
       ELSE UNCHANGED <<streamRef, stream, webcamStatus, preview>>
    /\ UNCHANGED <<liveStreams, pendingMedia, mounted, appVars, wavVars,
                   genVars>>

\* Lines 30-37; reached through handleWebcamToggle when the status is
\* STREAMING.
stopWebcam ==
    /\ mounted
    /\ webcamStatus = "STREAMING"
    /\ IF streamRef # NoStream
       THEN /\ liveStreams' = liveStreams \ {streamRef}
            /\ streamRef' = NoStream
            /\ stream' = NoStream
            /\ webcamStatus' = "IDLE"
            /\ Rerender(Props(NoStream, streamSource,
                              currentVideoUrl, currentAudioUrl))
       ELSE UNCHANGED <<liveStreams, streamRef, stream, webcamStatus, preview>>
    /\ UNCHANGED <<pendingMedia, mounted, appVars, wavVars, genVars>>

\* Lines 39-46: App is unmounted and the cleanup of useWebcam's effect
\* stops the tracks of the stream the ref holds.  The state of the
\* components and their elements are discarded with them and are shown as
\* they were at the start; the ref object lives on in the closure of a
\* pending startWebcam.
unmount ==
    /\ mounted
    /\ mounted' = FALSE
    /\ liveStreams' = liveStreams \ {streamRef}
    /\ stream' = NoStream
    /\ webcamStatus' = "IDLE"
    /\ streamSource' = WEBCAM
    /\ currentVideoUrl' = NoUrl
    /\ currentAudioUrl' = NoUrl
    /\ videoLibrary' = <<>>
    /\ animationLibrary' = <<>>
    /\ isStreaming' = FALSE
    /\ activeOverlayUrl' = NoUrl
    /\ overlayLibrary' = <<>>
    /\ history' = <<>>
    /\ preview' = MountedPreview
    /\ UNCHANGED <<streamRef, pendingMedia, wavVars, genVars>>

(***************************************************************************)
(* The browser's side of the media elements                                *)
(***************************************************************************)

\* The video element plays a file (its src is a clip's URL).
PlaysClip(d) == d.srcObject = NoStream /\ d.src # EmptySrc

HasMedia(d) == d.srcObject # NoStream \/ d.src # EmptySrc

\* The loop attribute of the video element, as the browser reads it when
\* playback reaches the end.
Loop == preview.loop

Min(a, b) == IF a < b THEN a ELSE b

\* Playback of the clip advances; at its end it restarts when loop is set
\* and otherwise ends, which pauses the element.  (The position of a live
\* stream is read by nothing and is not tracked.)
VideoAdvance ==
    /\ PlaysClip(preview)
    /\ ~preview.paused
    /\ IF preview.currentTime < MediaDuration
       THEN preview' = [preview EXCEPT
                           !.currentTime = Min(@ + Tick, MediaDuration),
                           !.lastEvent = NoEvent]
       ELSE IF Loop
       THEN preview' = [preview EXCEPT !.currentTime = 0,
                                       !.lastEvent = NoEvent]
       ELSE /\ Len(preview.events) < MaxQueue
            /\ preview' = [preview EXCEPT !.paused = TRUE,
                                          !.events = Append(@, "pause"),
                                          !.lastEvent = NoEvent]
    /\ UNCHANGED <<appVars, camVars, wavVars, genVars>>

\* Playback of an audio element advances; the <audio> has no loop
\* attribute, so reaching the end ends playback and pauses the element.
AudioAdvance(e) ==
    /\ ~preview.audio[e].paused
    /\ LET t == Min(preview.audio[e].currentTime + Tick, MediaDuration)
       IN  preview' = [preview EXCEPT !.audio[e].currentTime = t,
                                      !.audio[e].paused = (t = MediaDuration),
                                      !.lastEvent = NoEvent]
    /\ UNCHANGED <<appVars, camVars, wavVars, genVars>>

\* The user agent pauses or resumes the video (media keys, the controls
\* shown for VIDEO_LIBRARY, a user gesture after a rejected play).
VideoPaused ==
    /\ HasMedia(preview)
    /\ ~preview.paused
    /\ Len(preview.events) < MaxQueue
    /\ preview' = [preview EXCEPT !.paused = TRUE,
                                  !.events = Append(@, "pause"),
                                  !.lastEvent = NoEvent]
    /\ UNCHANGED <<appVars, camVars, wavVars, genVars>>

VideoResumed ==
    /\ HasMedia(preview)
    /\ preview.paused
    /\ Len(preview.events) < MaxQueue
    /\ preview' = [VideoPlay(preview, TRUE) EXCEPT !.lastEvent = NoEvent]
    /\ UNCHANGED <<appVars, camVars, wavVars, genVars>>

\* Every attached handler set runs its handler on its own audio element.
RECURSIVE ForEachListener(_, _, _, _)
ForEachListener(d, S, kind, ok) ==
    IF S = {} THEN d
    ELSE LET e == CHOOSE x \in S : TRUE
             d1 == IF d.listeners[e] = 0 THEN d
                   ELSE IF kind = "play" THEN handlePlay(d, e, ok)
                   ELSE IF kind = "pause" THEN handlePause(d, e)
                   ELSE handleSeek(d, e)
         IN  ForEachListener(d1, S \ {e}, kind, ok)

WouldSeek(d) ==
    \E e \in AudioEls :
        /\ d.listeners[e] > 0
        /\ SeekNeeded(d.audio[e].currentTime, d.currentTime)

Handled(d, kind) ==
    IF Attached(d) = 0 THEN NoEvent
    ELSE [type |-> kind,
          playCalls |-> IF kind = "play" THEN Attached(d) ELSE 0,
          seeked |-> kind = "timeupdate" /\ WouldSeek(d)]

\* The head of the video's event queue ('play' or 'pause') is dispatched.
DispatchVideoEvent ==
    /\ preview.events # <<>>
    /\ LET kind == Head(preview.events)
           d == [preview EXCEPT !.events = Tail(@),
                                !.lastEvent = Handled(preview, kind)]
       IN  preview' \in {Collect(ForEachListener(d, AudioEls, kind, ok)) :
                             ok \in BOOLEAN}
    /\ UNCHANGED <<appVars, camVars, wavVars, genVars>>

\* A 'timeupdate' of the video is dispatched; the handlers read the
\* positions of the moment.
VideoTimeUpdate ==
    /\ HasMedia(preview)
    /\ LET d == [preview EXCEPT !.lastEvent = Handled(preview, "timeupdate")]
       IN  preview' = Collect(ForEachListener(d, AudioEls, "timeupdate", TRUE))
    /\ UNCHANGED <<appVars, camVars, wavVars, genVars>>

(***************************************************************************)
(* Generation: CreatePanel.handleGenerateAnimation (src/App.tsx 199-219)   *)
(* and the service calls it makes (src/services/geminiService.ts)          *)
(*                                                                         *)
(* One action per continuation of an await.  A call that is still running  *)
(* when its handler has ended keeps running: nothing cancels it.           *)
(***************************************************************************)

\* Invocations of the handler the model follows.
MaxFlows == 2

Flows == 1 .. MaxFlows

NoText == ""
SomeText == "text"
NoFile == "null"
SomeFile == "file"

Rejected(c) == c \in {"rejected", "rejectedCredential"}

Settled(c) == c = "fulfilled" \/ Rejected(c)

\* Promise.all waiting for both calls before it rejects.
AllRejectsWhenBothSettled(sp, vd) ==
    /\ Rejected(sp) \/ Rejected(vd)
    /\ Settled(sp) /\ Settled(vd)

\* App.tsx 214: Promise.all rejects as soon as one of its promises does.
AllRejects(sp, vd) == Rejected(sp) \/ Rejected(vd)

\* App.tsx 214: Promise.all fulfils when all of its promises have.
AllFulfilled(sp, vd) == sp = "fulfilled" /\ vd = "fulfilled"

\* The alerts of the form checks (App.tsx 201, 222 and 233).  (The alerts
\* that report an error, lines 218, 241 and 439, are taken as dismissed
\* within the step that shows them.)
NoAlert == "none"
NeedImageAndText == "Please provide an image and text for the animation."
NeedText == "Please enter text for speech synthesis."
NeedPromptAndImage == "Please provide a prompt and an image."

\* window.alert is modal and blocks the page's only thread: until it is
\* dismissed no click, timer or promise continuation runs.
Blocked == alertShown # NoAlert

dismissAlert ==
    /\ Blocked
    /\ alertShown' = NoAlert
    /\ UNCHANGED <<hasApiKey, keyChecked, loading, ttsText, imageFile, genPc,
                   genFlow, flowCount, speechCall, videoCall, flowResult,
                   videoAnswer, audioCall, audioLibrary>>
    /\ UNCHANGED <<appVars, camVars, wavVars, preview>>

\* geminiService.ts 133-135: the state generateSpeechFromText(text) is in
\* when it returns its promise: rejected with "Text cannot be empty."
\* before anything is sent, or waiting for the answer to generateContent.
generateSpeechFromText(text) ==
    IF text = NoText THEN "rejected" ELSE "pending"

\* App.tsx 428-431: the answer of hasSelectedApiKey arrives.
checkApiKey ==
    /\ ~Blocked
    /\ ~keyChecked
    /\ keyChecked' = TRUE
    /\ \E answer \in BOOLEAN : hasApiKey' = answer
    /\ UNCHANGED <<loading, ttsText, imageFile, genPc, genFlow, flowCount,
                   speechCall, videoCall, flowResult, videoAnswer,
                   audVars>>
    /\ UNCHANGED <<appVars, camVars, wavVars, preview>>

\* App.tsx 433-435; the button is on the key gate (line 487).
handleSelectKey ==
    /\ ~Blocked
    /\ ~hasApiKey
    /\ hasApiKey' = TRUE
    /\ UNCHANGED <<keyChecked, loading, ttsText, imageFile, genPc, genFlow,
                   flowCount, speechCall, videoCall, flowResult, videoAnswer,
                   audVars>>
    /\ UNCHANGED <<appVars, camVars, wavVars, preview>>

\* App.tsx 486-491: either overlay covers the page and takes every click;
\* so does an alert.
Covered == ~hasApiKey \/ loading \/ Blocked

\* App.tsx 181: the narration text is typed or erased.
setTtsText(text) ==
    /\ ~Covered
    /\ ttsText' = text
    /\ UNCHANGED <<hasApiKey, keyChecked, loading, imageFile, genPc, genFlow,
                   flowCount, speechCall, videoCall, flowResult, videoAnswer,
                   audVars>>
    /\ UNCHANGED <<appVars, camVars, wavVars, preview>>

\* App.tsx 186-192: an image is chosen.
handleImageChange ==
    /\ ~Covered
    /\ imageFile' = SomeFile
    /\ UNCHANGED <<hasApiKey, keyChecked, loading, ttsText, genPc, genFlow,
                   flowCount, speechCall, videoCall, flowResult, videoAnswer,
                   audVars>>
    /\ UNCHANGED <<appVars, camVars, wavVars, preview>>

\* App.tsx 194-197.
resetImage ==
    /\ ~Covered
    /\ imageFile' = NoFile
    /\ UNCHANGED <<hasApiKey, keyChecked, loading, ttsText, genPc, genFlow,
                   flowCount, speechCall, videoCall, flowResult, videoAnswer,
                   audVars>>
    /\ UNCHANGED <<appVars, camVars, wavVars, preview>>

\* App.tsx 199-206: the click, up to the await of blobToBase64.
handleGenerateAnimation ==
    /\ ~Covered
    /\ flowCount < MaxFlows
    /\ IF ttsText = NoText \/ imageFile = NoFile
       THEN /\ alertShown' = NeedImageAndText
            /\ UNCHANGED <<loading, genPc, genFlow, flowCount>>
       ELSE /\ loading' = TRUE
            /\ genPc' = "readingImage"
            /\ genFlow' = flowCount + 1
            /\ flowCount' = flowCount + 1
            /\ UNCHANGED alertShown
    /\ UNCHANGED <<hasApiKey, keyChecked, ttsText, imageFile, speechCall,
                   videoCall, flowResult, videoAnswer, audioCall,
                   audioLibrary>>
    /\ UNCHANGED <<appVars, camVars, wavVars, preview>>

\* App.tsx 221-223: the click, up to the await of blobToBase64;
\* videoPrompt is what the prompt field (App.tsx 180) holds.
handleGenerateVideo ==
    /\ ~Covered
    /\ flowCount < MaxFlows
    /\ \E videoPrompt \in {NoText, SomeText} :
           IF videoPrompt = NoText \/ imageFile = NoFile
           THEN /\ alertShown' = NeedPromptAndImage
                /\ UNCHANGED <<loading, genPc, genFlow, flowCount>>
           ELSE /\ loading' = TRUE
                /\ genPc' = "readingVideoImage"
                /\ genFlow' = flowCount + 1
                /\ flowCount' = flowCount + 1
                /\ UNCHANGED alertShown
    /\ UNCHANGED <<hasApiKey, keyChecked, ttsText, imageFile, speechCall,
                   videoCall, flowResult, videoAnswer, audioCall,
                   audioLibrary>>
    /\ UNCHANGED <<appVars, camVars, wavVars, preview>>

\* Most assets the audio library holds.
MaxAudios == 1

AudioAsset(k) == [url |-> <<"audio", k>>]

\* A handler that sends its text without looking at it.
handleGenerateAudioUnchecked ==
    /\ ~Covered
    /\ Len(audioLibrary) < MaxAudios
    /\ loading' = TRUE
    /\ audioCall' = "pending"
    /\ UNCHANGED <<hasApiKey, keyChecked, ttsText, imageFile, genPc, genFlow,
                   flowCount, speechCall, videoCall, flowResult, videoAnswer,
                   alertShown, audioLibrary>>
    /\ UNCHANGED <<appVars, camVars, wavVars, preview>>

\* App.tsx 232-236: the click, up to the await of generateSpeechFromText.
handleGenerateAudio ==
    /\ ~Covered
    /\ Len(audioLibrary) < MaxAudios
    /\ IF ttsText = NoText
       THEN /\ alertShown' = NeedText
            /\ UNCHANGED <<loading, audioCall>>
       ELSE /\ loading' = TRUE
            /\ audioCall' = generateSpeechFromText(ttsText)
            /\ UNCHANGED alertShown
    /\ UNCHANGED <<hasApiKey, keyChecked, ttsText, imageFile, genPc, genFlow,
                   flowCount, speechCall, videoCall, flowResult, videoAnswer,
                   audioLibrary>>
    /\ UNCHANGED <<appVars, camVars, wavVars, preview>>

\* App.tsx 449, the library update.
setAudioLibrary(asset) ==
    /\ audioLibrary' = Append(audioLibrary, asset)
    /\ UNCHANGED history

\* App.tsx 449.
handleAudioGenerated(asset) ==
    /\ audioLibrary' = Append(audioLibrary, asset)
    /\ addHistoryItem("AUDIO", <<"Generated audio">>)

\* App.tsx 236-241 (geminiService.ts 135-153, 28-66): the answer arrives
\* and is encoded, the asset is handed over to onAudioGenerated (App's
\* handler, or its library update alone where the log is left out) and the
\* text is cleared; or the request, the answer's data or the encoder fails.
speechAnswered(logged) ==
    /\ ~Blocked
    /\ audioCall = "pending"
    /\ \E outcome \in {"fulfilled", "rejected"} :
           IF outcome = "fulfilled"
           THEN /\ IF logged
                   THEN handleAudioGenerated(
                            AudioAsset(Len(audioLibrary) + 1))
                   ELSE setAudioLibrary(AudioAsset(Len(audioLibrary) + 1))
                /\ ttsText' = NoText
           ELSE UNCHANGED <<audioLibrary, ttsText, history>>
    /\ audioCall' = "none"
    /\ loading' = FALSE
    /\ UNCHANGED <<hasApiKey, keyChecked, imageFile, genPc, genFlow,
                   flowCount, speechCall, videoCall, flowResult, videoAnswer,
                   alertShown>>
    /\ UNCHANGED <<streamSource, currentVideoUrl, currentAudioUrl,
                   videoLibrary, animationLibrary, isStreaming,
                   activeOverlayUrl, overlayLibrary, camVars, wavVars,
                   preview>>

\* The handler's second half with the library update alone.
audioSpeechSettled == speechAnswered(FALSE)

\* The handler's second half with App's handler.
audioSpeechAnswered == speechAnswered(TRUE)

\* App.tsx 218 and 229: catch and finally.
HandlerFails(k) ==
    /\ genPc' = "idle"
    /\ loading' = FALSE
    /\ flowResult' = [flowResult EXCEPT ![k] = "failed"]
    /\ UNCHANGED <<videoLibrary, animationLibrary, ttsText, imageFile>>

\* App.tsx 216-218: the asset is handed over, the form is cleared.
HandlerCompletes(k) ==
    /\ genPc' = "idle"
    /\ loading' = FALSE
    /\ flowResult' = [flowResult EXCEPT ![k] = "added"]
    /\ setAnimationLibrary(TalkingAnimationAsset(k))
    /\ ttsText' = NoText
    /\ imageFile' = NoFile
    /\ UNCHANGED videoLibrary

\* App.tsx 448, the library update.
setVideoLibrary(asset) == videoLibrary' = Append(videoLibrary, asset)

\* App.tsx 226-227: the asset is handed over, the form is cleared.
VideoHandlerCompletes(k) ==
    /\ genPc' = "idle"
    /\ loading' = FALSE
    /\ flowResult' = [flowResult EXCEPT ![k] = "added"]
    /\ setVideoLibrary(VideoAsset(Len(videoLibrary) + 1))
    /\ imageFile' = NoFile
    /\ UNCHANGED <<animationLibrary, ttsText>>

\* App.tsx 206-214: the image is read (App.tsx 9-22) and, in one task, the
\* speech request and the video request are sent; or reading fails.
imageRead ==
    /\ ~Blocked
    /\ genPc = "readingImage"
    /\ \E read \in BOOLEAN :
           IF read
           THEN /\ speechCall' = [speechCall EXCEPT
                                   ![genFlow] =
                                       generateSpeechFromText(ttsText)]
                /\ videoCall' = [videoCall EXCEPT ![genFlow] = "submitting"]
                /\ genPc' = "awaitingAll"
                /\ loading' = TRUE
                /\ UNCHANGED <<flowResult, videoLibrary, animationLibrary,
                               ttsText, imageFile>>
           ELSE /\ HandlerFails(genFlow)
                /\ UNCHANGED <<speechCall, videoCall>>
    /\ UNCHANGED <<hasApiKey, keyChecked, genFlow, flowCount, videoAnswer,
                   audVars>>
    /\ UNCHANGED <<streamSource, currentVideoUrl, currentAudioUrl,
                   studioVars, camVars, wavVars, preview>>

\* App.tsx 224-226: the image is read (App.tsx 9-22) and the video request
\* is sent; or reading fails.
videoImageRead ==
    /\ ~Blocked
    /\ genPc = "readingVideoImage"
    /\ \E read \in BOOLEAN :
           IF read
           THEN /\ videoCall' = [videoCall EXCEPT ![genFlow] = "submitting"]
                /\ genPc' = "awaitingVideo"
                /\ loading' = TRUE
                /\ UNCHANGED <<flowResult, videoLibrary, animationLibrary,
                               ttsText, imageFile>>
           ELSE /\ HandlerFails(genFlow)
                /\ UNCHANGED videoCall
    /\ UNCHANGED <<hasApiKey, keyChecked, genFlow, flowCount, speechCall,
                   videoAnswer, audVars>>
    /\ UNCHANGED <<streamSource, currentVideoUrl, currentAudioUrl,
                   studioVars, camVars, wavVars, preview>>

\* App.tsx 214-218 and 226-229: what the handler does when a call of
\* invocation k has settled or progressed; sp and vd are the calls' new
\* states, busy is the loading flag as the call's own callbacks left it.
\* handleGenerateAnimation awaits both calls, handleGenerateVideo the
\* video call alone.
AwaitAll(k, sp, vd, busy) ==
    IF genPc = "awaitingAll" /\ genFlow = k
    THEN IF AllRejects(sp, vd)
         THEN HandlerFails(k)
         ELSE IF AllFulfilled(sp, vd)
         THEN HandlerCompletes(k)
         ELSE /\ loading' = busy
              /\ UNCHANGED <<genPc, flowResult, videoLibrary,
                             animationLibrary, ttsText, imageFile>>
    ELSE IF genPc = "awaitingVideo" /\ genFlow = k
    THEN IF Rejected(vd)
         THEN HandlerFails(k)
         ELSE IF vd = "fulfilled"
         THEN VideoHandlerCompletes(k)
         ELSE /\ loading' = busy
              /\ UNCHANGED <<genPc, flowResult, videoLibrary,
                             animationLibrary, ttsText, imageFile>>
    ELSE /\ loading' = busy
         /\ UNCHANGED <<genPc, flowResult, videoLibrary, animationLibrary,
                        ttsText, imageFile>>

GenFrame ==
    UNCHANGED <<keyChecked, genFlow, flowCount, streamSource, currentVideoUrl,
                currentAudioUrl, studioVars, camVars, wavVars, preview,
                audVars>>

\* geminiService.ts 132-154 then 28-66 (App.tsx 208): the speech response
\* arrives and is encoded; a failed request, a response without data and
\* an encoder error all reject speechPromise.
speechSettled(k) ==
    /\ ~Blocked
    /\ speechCall[k] = "pending"
    /\ \E outcome \in {"fulfilled", "rejected"} :
           /\ speechCall' = [speechCall EXCEPT ![k] = outcome]
           /\ AwaitAll(k, outcome, videoCall[k], loading)
    /\ UNCHANGED <<hasApiKey, videoCall, videoAnswer>>
    /\ GenFrame

\* An operation that is done goes on to the download whatever it holds.
FinalizeWithoutLink(link) == "downloading"

\* geminiService.ts 111-117 and 123-129: the operation is done.
Finalize(link) == IF link THEN "downloading" ELSE "rejected"

\* geminiService.ts 82-96 and 123-129: generateVideos answers.  The await
\* of line 82 stands outside the try of lines 100-108: whatever error it
\* throws, "Requested entity was not found." included, reaches the catch of
\* line 123 and leaves as the generic failure, and onApiKeyError is not
\* called.
videoSubmitted(k) ==
    /\ ~Blocked
    /\ videoCall[k] = "submitting"
    /\ \E outcome \in {"started", "done", "doneNoLink", "notFound", "error"} :
         LET vd == CASE outcome = "started" -> "waiting"
                     [] outcome = "done" -> Finalize(TRUE)
                     [] outcome = "doneNoLink" -> Finalize(FALSE)
                     [] OTHER -> "rejected"
             busy == IF outcome \in {"notFound", "error"}
                     THEN loading ELSE TRUE
         IN  /\ videoCall' = [videoCall EXCEPT ![k] = vd]
             /\ videoAnswer' = [videoAnswer EXCEPT ![k] = outcome]
             /\ AwaitAll(k, speechCall[k], vd, busy)
    /\ UNCHANGED <<hasApiKey, speechCall>>
    /\ GenFrame

\* A timer that gives the call up instead of asking for the status.
videoTimerGivesUp(k) ==
    /\ ~Blocked
    /\ videoCall[k] = "waiting"
    /\ videoCall' = [videoCall EXCEPT ![k] = "rejected"]
    /\ AwaitAll(k, speechCall[k], "rejected", loading)
    /\ UNCHANGED <<hasApiKey, speechCall, videoAnswer>>
    /\ GenFrame

\* geminiService.ts 98-101: the 10 s timer fires, the status is requested.
videoTimerFired(k) ==
    /\ ~Blocked
    /\ videoCall[k] = "waiting"
    /\ videoCall' = [videoCall EXCEPT ![k] = "checking"]
    /\ AwaitAll(k, speechCall[k], "checking", TRUE)
    /\ UNCHANGED <<hasApiKey, speechCall, videoAnswer>>
    /\ GenFrame

\* geminiService.ts 101-117 and 123-129: getVideosOperation answers.
videoStatusChecked(k) ==
    /\ ~Blocked
    /\ videoCall[k] = "checking"
    /\ \E outcome \in {"running", "done", "doneNoLink", "notFound", "error"} :
         LET vd == CASE outcome = "running" -> "waiting"
                     [] outcome = "done" -> Finalize(TRUE)
                     [] outcome = "doneNoLink" -> Finalize(FALSE)
                     [] outcome = "notFound" -> "rejectedCredential"
                     [] OTHER -> "rejected"
             busy == IF outcome \in {"done", "doneNoLink"}
                     THEN TRUE ELSE loading
         IN  /\ videoCall' = [videoCall EXCEPT ![k] = vd]
             /\ videoAnswer' = [videoAnswer EXCEPT ![k] = outcome]
             /\ hasApiKey' = IF outcome = "notFound" THEN FALSE ELSE hasApiKey
             /\ AwaitAll(k, speechCall[k], vd, busy)
    /\ UNCHANGED speechCall
    /\ GenFrame

\* geminiService.ts 117-129: the download answers.
videoDownloaded(k) ==
    /\ ~Blocked
    /\ videoCall[k] = "downloading"
    /\ \E ok \in BOOLEAN :
         LET vd == IF ok THEN "fulfilled" ELSE "rejected"
         IN  /\ videoCall' = [videoCall EXCEPT ![k] = vd]
             /\ AwaitAll(k, speechCall[k], vd, loading)
    /\ UNCHANGED <<hasApiKey, speechCall, videoAnswer>>
    /\ GenFrame

(***************************************************************************)
(* The handlers of App that log: src/App.tsx.  Their clicks are those the  *)
(* key gate and the loading overlay let through, and none runs while an    *)
(* alert is up.                                                            *)
(***************************************************************************)

\* Line 446: the updater logs and negates; StreamPreview is rendered with
\* the new flag.
handleToggleStreaming ==
    /\ mounted
    /\ ~Covered
    /\ Room
    /\ addHistoryItem("STREAM", IF isStreaming THEN <<"Stream ended.">>
                                               ELSE <<"Stream started.">>)
    /\ isStreaming' = ~isStreaming
    /\ Rerender([CurrentProps EXCEPT !.isStreaming = ~isStreaming])
    /\ UNCHANGED <<streamSource, currentVideoUrl, currentAudioUrl,
                   videoLibrary, animationLibrary, activeOverlayUrl,
                   overlayLibrary, camVars, wavVars, genVars>>

\* Lines 466-474: a file is uploaded, with the object URL made for it.
handleOverlayUploaded ==
    /\ mounted
    /\ ~Covered
    /\ Room
    /\ Len(overlayLibrary) < MaxOverlays
    /\ overlayLibrary' =
           Append(overlayLibrary, OverlayAsset(Len(overlayLibrary) + 1))
    /\ addHistoryItem("OVERLAY",
                      <<"Uploaded overlay",
                        OverlayName(Len(overlayLibrary) + 1)>>)
    /\ UNCHANGED <<streamSource, currentVideoUrl, currentAudioUrl,
                   videoLibrary, animationLibrary, isStreaming,
                   activeOverlayUrl, camVars, wavVars, preview, genVars>>

\* A toggle that shows the overlay whatever is shown.
handleToggleOverlayShows(overlay) ==
    /\ mounted
    /\ ~Covered
    /\ Room
    /\ addHistoryItem("OVERLAY", <<"Showing overlay", overlay.name>>)
    /\ activeOverlayUrl' = overlay.url
    /\ Rerender([CurrentProps EXCEPT !.activeOverlayUrl = overlay.url])
    /\ UNCHANGED <<streamSource, currentVideoUrl, currentAudioUrl,
                   videoLibrary, animationLibrary, isStreaming,
                   overlayLibrary, camVars, wavVars, genVars>>

\* Lines 476-482: the updater logs and returns the new URL; StreamPreview
\* is rendered with it.
handleToggleOverlay(overlay) ==
    /\ mounted
    /\ ~Covered
    /\ Room
    /\ LET newUrl == IF activeOverlayUrl = overlay.url
                     THEN NoUrl ELSE overlay.url
       IN  /\ addHistoryItem("OVERLAY",
                              <<IF newUrl # NoUrl THEN "Showing overlay"
                                                  ELSE "Hiding overlay",
                                overlay.name>>)
           /\ activeOverlayUrl' = newUrl
           /\ Rerender([CurrentProps EXCEPT !.activeOverlayUrl = newUrl])
    /\ UNCHANGED <<streamSource, currentVideoUrl, currentAudioUrl,
                   videoLibrary, animationLibrary, isStreaming,
                   overlayLibrary, camVars, wavVars, genVars>>

\* Line 448.
handleVideoGenerated ==
    /\ ~Blocked
    /\ Room
    /\ videoArrives
    /\ addHistoryItem("VIDEO", <<"Generated video">>)

\* Line 450.
handleAnimationGenerated ==
    /\ ~Blocked
    /\ Room
    /\ animationArrives
    /\ addHistoryItem("ANIMATION", <<"Generated animation">>)

\* Lines 452-457.
handleSelectVideo(video) ==
    /\ ~Covered
    /\ Room
    /\ selectVideo(video)
    /\ addHistoryItem("VIDEO", <<"Set stream to video">>)

\* Lines 459-464.
handleSelectAnimation(anim) ==
    /\ ~Covered
    /\ Room
    /\ selectAnimation(anim)
    /\ addHistoryItem("ANIMATION", <<"Set stream to animation">>)

(***************************************************************************)
(* Specifications                                                          *)
(***************************************************************************)

WavIdle ==
    /\ decodedBytes = <<>>
    /\ wavStatus = "pending"
    /\ wavBytes = <<>>
    /\ floatSample = 0
    /\ sampleBytes = <<>>

\* App.tsx 409, 413, 418, 420.
InitStudio ==
    /\ isStreaming = FALSE
    /\ activeOverlayUrl = NoUrl
    /\ overlayLibrary = <<>>
    /\ history = <<>>

InitApp ==
    /\ streamSource = WEBCAM
    /\ currentVideoUrl = NoUrl
    /\ currentAudioUrl = NoUrl
    /\ videoLibrary = <<>>
    /\ animationLibrary = <<>>
    /\ InitStudio

InitCam ==
    /\ stream = NoStream
    /\ webcamStatus = "IDLE"
    /\ streamRef = NoStream
    /\ pendingMedia = 0
    /\ liveStreams = {}
    /\ mounted = TRUE

\* App.tsx 181-182, 421, 424: nothing typed, nothing running, no key yet.
InitGen ==
    /\ hasApiKey = FALSE
    /\ keyChecked = FALSE
    /\ loading = FALSE
    /\ ttsText = NoText
    /\ imageFile = NoFile
    /\ genPc = "idle"
    /\ genFlow = 0
    /\ flowCount = 0
    /\ speechCall = [k \in Flows |-> "none"]
    /\ videoCall = [k \in Flows |-> "none"]
    /\ flowResult = [k \in Flows |-> "none"]
    /\ videoAnswer = [k \in Flows |-> "none"]
    /\ alertShown = NoAlert
    /\ audioCall = "none"
    /\ audioLibrary = <<>>

\* The application after its first render.
Init ==
    /\ InitApp
    /\ InitCam
    /\ preview = MountedPreview
    /\ WavIdle
    /\ InitGen

Next ==
    \/ \E source \in StreamSource : setStreamSource(source)
    \/ \E video \in SeqToSet(videoLibrary) :
           selectVideo(video) /\ UNCHANGED history
    \/ \E anim \in SeqToSet(animationLibrary) :
           selectAnimation(anim) /\ UNCHANGED history
    \/ videoArrives /\ UNCHANGED history
    \/ animationArrives /\ UNCHANGED history
    \/ startWebcam
    \/ getUserMediaResolved
    \/ getUserMediaRejected
    \/ stopWebcam
    \/ unmount
    \/ VideoAdvance
    \/ \E e \in AudioEls : AudioAdvance(e)
    \/ VideoPaused
    \/ VideoResumed
    \/ DispatchVideoEvent
    \/ VideoTimeUpdate

Spec == Init /\ [][Next]_vars

\* The encoder on every input of PcmInputs.
InitWav ==
    /\ decodedBytes \in PcmInputs
    /\ wavStatus = "pending"
    /\ wavBytes = <<>>
    /\ floatSample = 0
    /\ sampleBytes = <<>>
    /\ InitApp
    /\ InitCam
    /\ preview = MountedPreview
    /\ InitGen

NextWav == createAudioUrl

SpecWav == InitWav /\ [][NextWav]_vars

\* The sample loop on every float of FloatSamples.
InitQuant ==
    /\ decodedBytes = <<>>
    /\ wavStatus = "pending"
    /\ wavBytes = <<>>
    /\ floatSample \in FloatSamples
    /\ sampleBytes = <<>>
    /\ InitApp
    /\ InitCam
    /\ preview = MountedPreview
    /\ InitGen

NextQuant == writeSample

SpecQuant == InitQuant /\ [][NextQuant]_vars

\* The position update handled at every pair of positions up to MaxPos
\* tenths of a second: the first animation is selected, its handlers are
\* attached and both elements play.
MaxPos == 10

SyncedPreview(a, v) ==
    LET first == Props(NoStream, WEBCAM, NoUrl, NoUrl)
        bound == Props(NoStream, ANIMATION, AnimVideoUrl(1), AnimAudioUrl(1))
        d == Commit(MountedPreview, first, bound, TRUE, TRUE)
    IN  [d EXCEPT !.events = <<>>,
                  !.currentTime = v,
                  !.audio[d.audioRef].currentTime = a]

InitSeek ==
    /\ streamSource = ANIMATION
    /\ currentVideoUrl = AnimVideoUrl(1)
    /\ currentAudioUrl = AnimAudioUrl(1)
    /\ videoLibrary = <<>>
    /\ animationLibrary = <<TalkingAnimationAsset(1)>>
    /\ InitStudio
    /\ InitCam
    /\ WavIdle
    /\ InitGen
    /\ \E a, v \in 0 .. MaxPos : preview = SyncedPreview(a, v)

NextSeek == VideoTimeUpdate

SpecSeek == InitSeek /\ [][NextSeek]_vars

\* The talking-animation workflow, from the first render.
NextGen ==
    \/ checkApiKey
    \/ handleSelectKey
    \/ \E text \in {NoText, SomeText} : setTtsText(text)
    \/ handleImageChange
    \/ resetImage
    \/ handleGenerateAnimation
    \/ handleGenerateAudio
    \/ dismissAlert
    \/ imageRead
    \/ audioSpeechSettled
    \/ \E k \in Flows : speechSettled(k)
    \/ \E k \in Flows : videoSubmitted(k)
    \/ \E k \in Flows : videoTimerFired(k)
    \/ \E k \in Flows : videoStatusChecked(k)
    \/ \E k \in Flows : videoDownloaded(k)

SpecGen == Init /\ [][NextGen]_vars

\* The next step of generateVideoFromImage in invocation k: the call is at
\* one await at a time, so at most one disjunct is enabled.
videoStep(k) ==
    \/ videoSubmitted(k)
    \/ videoTimerFired(k)
    \/ videoStatusChecked(k)
    \/ videoDownloaded(k)

\* The workflow's last two invocations: the earlier ones have ended at
\* the reading of their image (App.tsx 206, 218) and the form is empty again.
InitPoll ==
    /\ InitApp
    /\ InitCam
    /\ preview = MountedPreview
    /\ WavIdle
    /\ hasApiKey = FALSE
    /\ keyChecked = FALSE
    /\ loading = FALSE
    /\ ttsText = NoText
    /\ imageFile = NoFile
    /\ genPc = "idle"
    /\ genFlow = MaxFlows - 2
    /\ flowCount = MaxFlows - 2
    /\ speechCall = [k \in Flows |-> "none"]
    /\ videoCall = [k \in Flows |-> "none"]
    /\ flowResult = [k \in Flows |->
                         IF k <= MaxFlows - 2 THEN "failed" ELSE "none"]
    /\ videoAnswer = [k \in Flows |-> "none"]
    /\ alertShown = NoAlert
    /\ audioCall = "none"
    /\ audioLibrary = <<>>

\* Its scheduling: a timer that was set fires, a request that was sent is
\* answered and its continuation runs, each as soon as the page's thread
\* is free of alerts (strong fairness: an alert may come and go any number
\* of times), and an alert is dismissed.
PollFairness ==
    /\ WF_vars(dismissAlert)
    /\ \A k \in Flows : SF_vars(videoStep(k))

SpecPoll == InitPoll /\ [][NextGen]_vars /\ PollFairness

\* App.tsx 424, 428-431: the key check has answered that a key is selected.
KeySelected ==
    /\ hasApiKey = TRUE
    /\ keyChecked = TRUE
    /\ loading = FALSE
    /\ ttsText = NoText
    /\ imageFile = NoFile
    /\ genPc = "idle"
    /\ genFlow = 0
    /\ flowCount = 0
    /\ speechCall = [k \in Flows |-> "none"]
    /\ videoCall = [k \in Flows |-> "none"]
    /\ flowResult = [k \in Flows |-> "none"]
    /\ videoAnswer = [k \in Flows |-> "none"]
    /\ alertShown = NoAlert
    /\ audioCall = "none"
    /\ audioLibrary = <<>>

\* useWebcam.ts 12-22: the camera has been started and has answered with
\* its first stream, which the preview shows; its play call was accepted or
\* rejected.
CameraStarted ==
    /\ stream = 1
    /\ webcamStatus = "STREAMING"
    /\ streamRef = 1
    /\ pendingMedia = 0
    /\ liveStreams = {1}
    /\ mounted = TRUE
    /\ preview \in {Commit(MountedPreview,
                           Props(NoStream, WEBCAM, NoUrl, NoUrl),
                           Props(1, WEBCAM, NoUrl, NoUrl), vOk, TRUE) :
                        vOk \in BOOLEAN}

\* The studio with a key selected, and the camera started or not: the
\* states the application is in before anything is logged.
InitStudioKeyed ==
    /\ InitApp
    /\ WavIdle
    /\ KeySelected
    /\ \/ InitCam /\ preview = MountedPreview
       \/ CameraStarted

\* The handlers of App with the entries they log, the source buttons and
\* the events of the video element.
NextStudio ==
    \/ handleToggleStreaming
    \/ handleOverlayUploaded
    \/ \E overlay \in SeqToSet(overlayLibrary) : handleToggleOverlay(overlay)
    \/ handleVideoGenerated
    \/ handleAnimationGenerated
    \/ \E video \in SeqToSet(videoLibrary) : handleSelectVideo(video)
    \/ \E anim \in SeqToSet(animationLibrary) : handleSelectAnimation(anim)
    \/ \E source \in StreamSource : setStreamSource(source)
    \/ DispatchVideoEvent

SpecStudio == InitStudioKeyed /\ [][NextStudio]_vars

\* The studio with a key selected.
InitLog ==
    /\ InitApp
    /\ InitCam
    /\ preview = MountedPreview
    /\ WavIdle
    /\ KeySelected

\* Every handler of App that writes a library or the log, and the speech
\* workflow of CreatePanel with the handler its prop is bound to.
NextLog ==
    \/ handleToggleStreaming
    \/ handleOverlayUploaded
    \/ \E overlay \in SeqToSet(overlayLibrary) : handleToggleOverlay(overlay)
    \/ handleVideoGenerated
    \/ handleAnimationGenerated
    \/ \E video \in SeqToSet(videoLibrary) : handleSelectVideo(video)
    \/ \E anim \in SeqToSet(animationLibrary) : handleSelectAnimation(anim)
    \/ \E text \in {NoText, SomeText} : setTtsText(text)
    \/ handleGenerateAudio
    \/ dismissAlert
    \/ audioSpeechAnswered

SpecLog == InitLog /\ [][NextLog]_vars

\* handleGenerateVideo with the call it makes, behind the key gate.
NextVid ==
    \/ checkApiKey
    \/ handleSelectKey
    \/ handleImageChange
    \/ resetImage
    \/ handleGenerateVideo
    \/ dismissAlert
    \/ videoImageRead
    \/ \E k \in Flows : videoSubmitted(k)
    \/ \E k \in Flows : videoTimerFired(k)
    \/ \E k \in Flows : videoStatusChecked(k)
    \/ \E k \in Flows : videoDownloaded(k)

SpecVid == Init /\ [][NextVid]_vars

\* useWebcam with the webcam button (App.tsx 142-148) clicked at any time,
\* while a request is pending too, and the preview showing what the hook
\* hands it.
NextCam ==
    \/ startWebcamWithin(MaxRequests)
    \/ getUserMediaResolvedFrom(Captures)
    \/ getUserMediaRejected
    \/ stopWebcam
    \/ unmount
    \/ \E source \in StreamSource : setStreamSource(source)
    \/ DispatchVideoEvent

SpecCam == Init /\ [][NextCam]_vars

(***************************************************************************)
(* Claims                                                                  *)
(***************************************************************************)

SyncWanted == streamSource = ANIMATION /\ currentAudioUrl # NoUrl

\* C1: whatever changes of (source, currentAudioUrl) came before, the sync
\* effect attaches its handlers only after the previous handlers were
\* removed and every audio element was paused at position 0; so at most one
\* handler set is attached at any time and a dispatched video 'play' makes
\* at most one audio play call.
C1_OneBindingAtATime ==
    /\ Attached(preview) <= 1
    /\ preview.staleAtAttach.handlers = 0
    /\ preview.staleAtAttach.audio = {}
    /\ preview.lastEvent.playCalls <= 1

\* A 'play' was handled by the handlers of a second animation, bound after
\* the first one's.
C1_Witness ==
    /\ currentAudioUrl = AnimAudioUrl(2)
    /\ Attached(preview) = 1
    /\ preview.lastEvent.type = "play"
    /\ preview.lastEvent.playCalls = 1

\* C2: the handlers are attached exactly when the selection is ANIMATION
\* and currentAudioUrl is non-null, and then to the element playing that
\* URL; otherwise no audio element is mounted and every audio element is
\* paused at position 0.
C2_SyncIffAnimationWithAudio ==
    /\ (Attached(preview) > 0) <=> SyncWanted
    /\ SyncWanted =>
           /\ preview.audioRef # NoAudio
           /\ preview.listeners[preview.audioRef] = 1
           /\ preview.cleanup = preview.audioRef
           /\ preview.audio[preview.audioRef].src = currentAudioUrl
    /\ ~SyncWanted =>
           /\ preview.audioRef = NoAudio
           /\ \A e \in AudioEls :
                  preview.audio[e].paused /\ preview.audio[e].currentTime = 0

\* The selection left ANIMATION after an animation with audio was bound.
C2_Witness ==
    /\ streamSource # ANIMATION
    /\ currentAudioUrl # NoUrl
    /\ Attached(preview) = 0

\* C3: while the handlers are attached, every state the controller reaches
\* by handling a video event (play, pause or position update), with no
\* event left waiting, has the audio paused exactly when the video is; in
\* every interleaving of video play, pause, loop restart, position update
\* and audio end (no element being kept from playing by a rejected play
\* call).
C3_Tracking ==
    (/\ Attached(preview) > 0
     /\ preview.audioRef # NoAudio
     /\ ~preview.videoRefused
     /\ preview.audioRefused = {}
     /\ preview.events = <<>>)
        => (preview.audio[preview.audioRef].paused <=> preview.paused)

C3_AudioTracksVideo ==
    [][(DispatchVideoEvent \/ VideoTimeUpdate) => C3_Tracking']_vars

\* C4: a handled position update sets the audio position to the video
\* position exactly when the two differ by more than 0.5 s (5 tenths), and
\* otherwise leaves it; afterwards they differ by at most 0.5 s.
C4_DriftCorrection ==
    [][(VideoTimeUpdate /\ Attached(preview) > 0) =>
          LET e == preview.audioRef
              a == preview.audio[e].currentTime
              v == preview.currentTime
              a2 == preview'.audio[e].currentTime
          IN  /\ Abs(a - v) > 5 => a2 = v
              /\ Abs(a - v) <= 5 => a2 = a
              /\ Abs(a2 - preview'.currentTime) <= 5]_vars

\* A position update was handled and forced the audio position.
C4_Witness ==
    /\ preview.lastEvent.type = "timeupdate"
    /\ preview.lastEvent.seeked
    /\ preview.audio[preview.audioRef].currentTime = preview.currentTime

\* C5: the video element is muted for WEBCAM, unmuted for VIDEO_LIBRARY and
\* muted for ANIMATION.
C5_MutedPolicy ==
    /\ streamSource = WEBCAM => preview.muted
    /\ streamSource = VIDEO_LIBRARY => ~preview.muted
    /\ streamSource = ANIMATION => preview.muted

\* C6: with the selection WEBCAM and no capture stream, nothing is bound to
\* the video element: no stream, no source URL, and the binding effect
\* issued no play call.
C6_AwaitingDeviceUnbound ==
    (streamSource = WEBCAM /\ stream = NoStream)
        => /\ preview.srcObject = NoStream
           /\ preview.src = EmptySrc
           /\ ~preview.playIssued

\* The places of invocation k's asset in the library.
AssetsOf(k) == {i \in 1 .. Len(animationLibrary) :
                   animationLibrary[i] = TalkingAnimationAsset(k)}

\* C7: in the talking-animation workflow the speech request and the video
\* request are sent together, before the handler waits for either; the
\* handler waits only while neither call has failed; an invocation has an
\* asset in the library exactly when its handler ended with both calls
\* fulfilled (and then exactly one); and an invocation one of whose calls
\* failed has ended as failed with no asset, whatever the other call did
\* afterwards.
C7_ConcurrentFailFast ==
    /\ \A k \in Flows : speechCall[k] = "none" <=> videoCall[k] = "none"
    /\ genPc = "awaitingAll" =>
           /\ speechCall[genFlow] # "none" /\ videoCall[genFlow] # "none"
           /\ ~Rejected(speechCall[genFlow])
           /\ ~Rejected(videoCall[genFlow])
    /\ \A k \in Flows :
           /\ Cardinality(AssetsOf(k)) =
                  (IF flowResult[k] = "added" THEN 1 ELSE 0)
           /\ flowResult[k] = "added" =>
                  AllFulfilled(speechCall[k], videoCall[k])
           /\ (Rejected(speechCall[k]) \/ Rejected(videoCall[k])) =>
                  /\ flowResult[k] = "failed"
                  /\ ~(genPc # "idle" /\ genFlow = k)

\* The speech call failed while the video call was running, the handler
\* ended at once, and the video call succeeded afterwards: no asset.
C7_Witness ==
    \E k \in Flows :
        /\ speechCall[k] = "rejected"
        /\ videoCall[k] = "fulfilled"
        /\ flowResult[k] = "failed"
        /\ AssetsOf(k) = {}

\* Readers of the little-endian fields of an encoded file (offsets from 0).
GetUint16(bytes, off) == bytes[off + 1] + 256 * bytes[off + 2]

GetUint32(bytes, off) ==
    bytes[off + 1] + 256 * bytes[off + 2]
        + 65536 * bytes[off + 3] + 16777216 * bytes[off + 4]

DataChunk(bytes) == SubSeq(bytes, 45, Len(bytes))

\* C8: for every PCM input of n 16-bit samples the bytes of the encoded
\* file from offset 44 on are the input bytes; and the input
\* [0, 16384, -16384, 32767] gives 52 bytes ending in
\* 00 00, 00 40, 00 C0, FF 7F.
C8_DataRoundTrip ==
    wavStatus = "ok" =>
        /\ DataChunk(wavBytes) = decodedBytes
        /\ decodedBytes = PcmOf(<<0, 16384, -16384, 32767>>) =>
               /\ Len(wavBytes) = 52
               /\ DataChunk(wavBytes) = <<0, 0, 0, 64, 0, 192, 255, 127>>

\* C9: for every PCM input of n samples the encoded file is 44 + 2n bytes
\* long, its RIFF chunk size field is 36 + 2n and its data chunk size
\* field is 2n.
C9_Lengths ==
    wavStatus = "ok" =>
        LET n == Len(decodedBytes) \div 2
        IN  /\ Len(wavBytes) = 44 + 2 * n
            /\ GetUint32(wavBytes, 4) = 36 + 2 * n
            /\ GetUint32(wavBytes, 40) = 2 * n

\* An input of three samples was encoded.
C9_Witness ==
    /\ wavStatus = "ok"
    /\ Len(decodedBytes) = 6
    /\ Len(wavBytes) = 50

\* C10: for every input the header has format 1 at offsets 20-21, one
\* channel at 22-23, sample rate 24000 at 24-27, byte rate 2 x 24000 at
\* 28-31, block align 2 at 32-33 and 16 bits per sample at 34-35, little
\* endian, whatever the samples are.
C10_FixedHeaderFields ==
    wavStatus = "ok" =>
        /\ GetUint16(wavBytes, 20) = 1
        /\ GetUint16(wavBytes, 22) = 1
        /\ GetUint32(wavBytes, 24) = 24000
        /\ GetUint32(wavBytes, 28) = 2 * GetUint32(wavBytes, 24)
        /\ GetUint16(wavBytes, 32) = 2
        /\ GetUint16(wavBytes, 34) = 16

\* Extreme samples were encoded.
C10_Witness ==
    /\ wavStatus = "ok"
    /\ decodedBytes = PcmOf(<<32767, -32768>>)

\* The signed 16-bit value a reader of the file finds in two bytes.
GetInt16(bytes, off) ==
    LET u == GetUint16(bytes, off)
    IN  IF u >= 32768 THEN u - 65536 ELSE u

\* C11: a float sample >= 1.0 is written as 32767 and one <= -1.0 as
\* -32768; every written value is the sample's own scaling truncated toward
\* zero (by 32768 for a negative sample, by 32767 otherwise) of the clamped
\* sample, so it lies in [-32768, 32767] and has the sample's sign: nothing
\* wraps around.
C11_Clamping ==
    sampleBytes # <<>> =>
        LET w == GetInt16(sampleBytes, 0)
            x == floatSample
        IN  /\ Len(sampleBytes) = 2
            /\ w \in -32768 .. 32767
            /\ x >= FloatDen => w = 32767
            /\ x <= -FloatDen => w = -32768
            /\ (x < 0 /\ x > -FloatDen) =>
                   /\ w <= 0
                   /\ w * FloatDen >= x * 32768
                   /\ (w - 1) * FloatDen < x * 32768
            /\ (x >= 0 /\ x < FloatDen) =>
                   /\ w >= 0
                   /\ w * FloatDen <= x * 32767
                   /\ (w + 1) * FloatDen > x * 32767

\* A sample above 1.0 has been written, as 32767.
C11_Witness ==
    /\ sampleBytes # <<>>
    /\ floatSample > FloatDen
    /\ GetInt16(sampleBytes, 0) = 32767

\* The errors createAudioUrl throws on an input it cannot decode.
MalformedAudio == {"RangeError", "NotSupportedError"}

\* C12: once the encoder has run on an input of zero samples or of an odd
\* number of bytes, it has failed with an error for malformed audio and no
\* WAV buffer, hence no Blob and no object URL, has been made.
C12_MalformedInputFails ==
    (wavStatus # "pending"
        /\ (Len(decodedBytes) \div 2 = 0 \/ Len(decodedBytes) % 2 # 0)) =>
        /\ wavStatus \in MalformedAudio
        /\ wavBytes = <<>>

\* The encoder has run on three bytes: one sample and a dangling byte.
C12_Witness ==
    /\ Len(decodedBytes) = 3
    /\ wavStatus = "RangeError"
    /\ wavBytes = <<>>

\* What the binding effect leaves on the video element for the current
\* props (lines 54-63).
BoundAsSelected ==
    IF streamSource = WEBCAM /\ stream # NoStream
    THEN preview.srcObject = stream /\ preview.src = EmptySrc
    ELSE /\ preview.srcObject = NoStream
         /\ preview.src = IF currentVideoUrl # NoUrl THEN currentVideoUrl
                          ELSE EmptySrc

C13_StateKept ==
    /\ preview.videoRefused =>
           /\ preview.paused
           /\ BoundAsSelected
           /\ (Attached(preview) > 0) <=> SyncWanted
    /\ \A e \in preview.audioRefused :
           /\ preview.audio[e].paused
           /\ streamSource = ANIMATION
           /\ preview.audio[e].src = currentAudioUrl
           /\ preview.audioRef = e
           /\ preview.listeners[e] = 1
           /\ preview.cleanup = e
           /\ BoundAsSelected

C13_LaterPlay ==
    \A e \in preview.audioRefused :
        (preview.events # <<>> /\ Head(preview.events) = "play"
             /\ DispatchVideoEvent) =>
            /\ preview'.lastEvent.playCalls = 1
            /\ ~preview'.audio[e].paused \/ e \in preview'.audioRefused

\* C13: after a rejected play call of the video or of the synced audio
\* element the effect has gone on as after an accepted one: the element is
\* paused, the surface is bound to the selected media, the handlers are
\* attached exactly when the selection asks for them, and the next video
\* 'play' event calls play on the audio again, which starts it unless that
\* call is rejected too.
C13_RejectedPlayKeepsState ==
    [][C13_StateKept /\ C13_StateKept' /\ C13_LaterPlay]_vars

\* The audio's play call was rejected during the attachment and the
\* video's 'play' event is waiting to be dispatched.
C13_Witness ==
    \E e \in preview.audioRefused :
        /\ preview.listeners[e] = 1
        /\ preview.events # <<>>
        /\ Head(preview.events) = "play"

\* C14: in the step in which the service answers a generateVideoFromImage
\* call with the invalid-credential condition, at the submission or at a
\* status poll, the call rejects with the credential error and hasApiKey
\* becomes false; a call rejected so stays so and sends nothing more.
C14_CredentialRejected ==
    [][\A k \in Flows :
          /\ (videoAnswer[k] # "notFound" /\ videoAnswer'[k] = "notFound") =>
                 /\ videoCall'[k] = "rejectedCredential"
                 /\ hasApiKey' = FALSE
          /\ videoCall[k] = "rejectedCredential" =>
                 videoCall'[k] = "rejectedCredential"]_vars

\* A step in which the sync effect runs and installs the association.
Installs ==
    /\ <<streamSource, currentAudioUrl>>' # <<streamSource, currentAudioUrl>>
    /\ SyncWanted'

C15_AtInstallation ==
    Installs =>
        LET e == preview'.audioRef
        IN  IF preview'.paused
            THEN preview'.audio[e].paused /\ e \notin preview'.audioRefused
            ELSE ~preview'.audio[e].paused \/ e \in preview'.audioRefused

C15_StartsOnlyThen ==
    \A e \in AudioEls :
        (preview.audio[e].paused /\ ~preview'.audio[e].paused) =>
            \/ Installs /\ ~preview'.paused
            \/ DispatchVideoEvent /\ Head(preview.events) = "play"

\* C15: the step that installs the sync association calls play on the
\* audio exactly when the video is playing at that moment (the call starts
\* the audio unless it is rejected), before any 'play' event is handled;
\* and an audio element goes from paused to playing only in such a step or
\* when a video 'play' event is dispatched.
C15_StartAtInstallation ==
    [][C15_AtInstallation /\ C15_StartsOnlyThen]_vars

\* The association is installed, the audio plays from 0, and the 'play'
\* event of the video's own start is still waiting in the queue.
C15_Witness ==
    /\ SyncWanted
    /\ preview.cleanup # NoAudio
    /\ ~preview.paused
    /\ ~preview.audio[preview.cleanup].paused
    /\ preview.audio[preview.cleanup].currentTime = 0
    /\ preview.events = <<"play">>
    /\ preview.lastEvent = NoEvent

\* C16: in every state the video element's loop attribute is false when
\* the selection is WEBCAM and true when it is VIDEO_LIBRARY or ANIMATION.
C16_LoopPolicy ==
    /\ streamSource = WEBCAM => preview.loop = FALSE
    /\ streamSource \in {VIDEO_LIBRARY, ANIMATION} => preview.loop = TRUE

\* An animation's clip is bound and plays with the loop attribute set.
C16_Witness ==
    /\ streamSource = ANIMATION
    /\ PlaysClip(preview)
    /\ ~preview.paused
    /\ preview.loop

C17_EmptyTextStep ==
    (ttsText = NoText /\ (handleGenerateAnimation \/ handleGenerateAudio)) =>
        /\ alertShown' \in {NeedImageAndText, NeedText}
        /\ UNCHANGED <<loading, genPc, flowCount, speechCall, videoCall,
                       audioCall, videoLibrary, animationLibrary,
                       audioLibrary>>

\* C17: generateSpeechFromText with empty text is rejected without a
\* request having been sent; and a click on the audio or the animation
\* handler with empty text shows the form's alert and leaves the loading
\* flag, every service call and every library as they were.
C17_EmptyTextSendsNothing ==
    [][generateSpeechFromText(NoText) = "rejected" /\ C17_EmptyTextStep]_vars

\* The audio handler was invoked with empty text: its alert is on screen
\* and nothing else has happened.
C17_Witness ==
    /\ alertShown = NeedText
    /\ ttsText = NoText
    /\ ~loading
    /\ audioCall = "none"
    /\ audioLibrary = <<>>

\* A status check is made only by the timer's callback, from the wait.
C18_WaitBeforeCheck ==
    \A k \in Flows :
        (videoCall[k] # "checking" /\ videoCall'[k] = "checking") =>
            videoCall[k] = "waiting" /\ videoTimerFired(k)

\* The wait ends in a status check only, and a status of not-done in
\* another wait.
C18_NoWayOut ==
    \A k \in Flows :
        /\ (videoCall[k] = "waiting" /\ videoCall'[k] # "waiting") =>
               videoCall'[k] = "checking"
        /\ (videoCall[k] = "checking" /\ videoCall'[k] # "checking"
                /\ videoAnswer'[k] = "running") =>
               videoCall'[k] = "waiting"

\* The result is read only of an operation reported done.
C18_ReadWhenDone ==
    \A k \in Flows :
        videoCall[k] \in {"downloading", "fulfilled"} => videoAnswer[k] = "done"

\* C18: a status check is made only after a wait; the result is read only
\* after the operation was reported done; a wait leads to a status check
\* and nowhere else, and a not-done status to another wait, any number of
\* times; and once the service has reported done or failed a request, the
\* call resolves or rejects.
C18_Polling ==
    /\ [][C18_WaitBeforeCheck /\ C18_NoWayOut]_vars
    /\ []C18_ReadWhenDone
    /\ \A k \in Flows :
           /\ (videoCall[k] = "waiting") ~> (videoCall[k] = "checking")
           /\ (videoAnswer[k] \in {"done", "doneNoLink", "notFound", "error"})
                  ~> Settled(videoCall[k])

\* A status check was answered not-done and the call waits again.
C18_Witness ==
    \E k \in Flows :
        /\ videoCall[k] = "waiting"
        /\ videoAnswer[k] = "running"

\* A step that sends generateContent or generateVideos to the service.
RequestIssued ==
    \/ \E k \in Flows : speechCall[k] # "pending" /\ speechCall'[k] = "pending"
    \/ \E k \in Flows :
           videoCall[k] # "submitting" /\ videoCall'[k] = "submitting"
    \/ audioCall # "pending" /\ audioCall' = "pending"

\* C19: a step that sends a generation request starts in a state in which
\* hasApiKey is true, that is, with the credential gate not shown.
C19_NoRequestBehindGate == [][RequestIssued => hasApiKey]_vars

C20_StopWebcam ==
    (stopWebcam /\ streamRef # NoStream) =>
        /\ liveStreams' = liveStreams \ {streamRef}
        /\ stream' = NoStream
        /\ streamRef' = NoStream
        /\ webcamStatus' = "IDLE"

C20_Unmount ==
    unmount => liveStreams' = liveStreams \ {streamRef}

C20_OnlyTheOwner ==
    /\ liveStreams \ liveStreams' # {} => stopWebcam \/ unmount
    /\ webcamStatus' # webcamStatus =>
           \/ startWebcam
           \/ getUserMediaResolved
           \/ getUserMediaRejected
           \/ stopWebcam
           \/ unmount

\* C20: stopWebcam with a stream held stops that stream's tracks and
\* leaves stream null and the status IDLE; the unmount stops the tracks of
\* the held stream; and a step that stops a track is one of these two,
\* a step that changes the status one of useWebcam's: no source switch,
\* selection, render or media event does either.
C20_StoppedByOwnerOnly ==
    [][C20_StopWebcam /\ C20_Unmount /\ C20_OnlyTheOwner]_vars

\* After the unmount the ref still holds the stream and its tracks are
\* stopped.
C20_Witness ==
    /\ ~mounted
    /\ streamRef # NoStream
    /\ streamRef \notin liveStreams

\* What a render that runs no effect leaves of the elements: the overlay
\* image and the label follow the props, the rest stays.
Rerendered(d, overlay, flag) ==
    [d EXCEPT !.overlay = overlay, !.onAir = flag, !.lastEvent = NoEvent]

IsAppend(q, r) ==
    /\ Len(r) = Len(q) + 1
    /\ SubSeq(r, 1, Len(q)) = q

\* C21: a step that toggles 'Go Live' / 'End Stream' changes the isStreaming
\* flag and appends one STREAM entry to the history, and nothing else: the
\* source selection, the two current URLs, the active overlay, the four
\* libraries and the webcam are as before, and the preview runs no effect
\* (its elements are as before, except for the ON AIR label).
C21_ToggleStep ==
    isStreaming' # isStreaming =>
        /\ IsAppend(history, history')
        /\ history'[Len(history')].type = "STREAM"
        /\ UNCHANGED <<streamSource, currentVideoUrl, currentAudioUrl,
                       activeOverlayUrl, videoLibrary, audioLibrary,
                       animationLibrary, overlayLibrary, camVars>>
        /\ preview' = Rerendered(preview, activeOverlayUrl, isStreaming')

C21_ToggleChangesOnlyFlag == [][C21_ToggleStep]_vars

\* The stream went live while an animation was bound with its audio
\* element: the toggle is the last thing logged.
C21_Witness ==
    /\ isStreaming
    /\ preview.onAir
    /\ streamSource = ANIMATION
    /\ preview.src = currentVideoUrl
    /\ preview.audioRef # NoAudio
    /\ history # <<>>
    /\ history[Len(history)].type = "STREAM"


\* The positions of the video element and of the audio elements.
Positions(d) == <<d.currentTime, [e \in AudioEls |-> d.audio[e].currentTime]>>

\* C22: while the selection is VIDEO_LIBRARY or ANIMATION, a step that
\* changes the capture stream (the webcam started or stopped) does not
\* assign the video source again (playback is not stopped by a load),
\* issues no play call and leaves the video and audio positions unchanged.
C22_StreamStep ==
    (/\ stream' # stream
     /\ mounted'
     /\ streamSource \in {VIDEO_LIBRARY, ANIMATION}
     /\ streamSource' = streamSource)
        => /\ preview'.paused = preview.paused
           /\ preview'.events = preview.events
           /\ preview'.videoRefused = preview.videoRefused
           /\ Positions(preview') = Positions(preview)

C22_WebcamLeavesBinding == [][C22_StreamStep]_vars


\* A step during which no handler is running and none starts, after some
\* invocation of handleGenerateAnimation has ended.
AfterHandlerEnded ==
    /\ \E k \in Flows : flowResult[k] # "none"
    /\ genPc = "idle" /\ genPc' = "idle"
    /\ audioCall = "none" /\ audioCall' = "none"

\* C23: once a generation handler has ended and no new workflow has been
\* started, loading is false and stays false, and no request of the ended
\* workflow calls onApiKeyError (hasApiKey is not taken back).
C23_EndedStep ==
    AfterHandlerEnded
        => /\ ~loading /\ ~loading'
           /\ (hasApiKey /\ ~hasApiKey') => keyChecked' # keyChecked

C23_LoadingStaysFalse == [][C23_EndedStep]_vars


\* C24: every capture stream that was acquired and whose tracks are not
\* stopped is the one streamRef holds.
C24_NoStreamLeftLive == liveStreams \subseteq {streamRef}

\* C25: stream is non-null if and only if the status is STREAMING.
C25_StreamIffStreaming == (stream # NoStream) <=> (webcamStatus = "STREAMING")


\* Invocations that ended by handing an asset over.
Added == {k \in Flows : flowResult[k] = "added"}

\* C26: a call of generateVideoFromImage that fails ends with the
\* credential error or with the one generic error; an error answer to the
\* submission or to a status request, an operation done without a download
\* link and a failed download end with the generic error (an entity not
\* found by a status request with the credential error); a failed call
\* returns no URL and its handler adds no asset to a library.
C26_FailuresAreGeneric ==
    /\ \A k \in Flows :
           /\ videoAnswer[k] \in {"error", "doneNoLink"}
                  => videoCall[k] = "rejected"
           /\ videoAnswer[k] = "notFound" => Rejected(videoCall[k])
           /\ videoAnswer[k] = "done"
                  => videoCall[k] \in {"downloading", "fulfilled",
                                       "rejected"}
           /\ Rejected(videoCall[k]) => flowResult[k] = "failed"
           /\ flowResult[k] = "added" => videoCall[k] = "fulfilled"
    /\ Len(videoLibrary) = Cardinality(Added)
    /\ animationLibrary = <<>>
    /\ audioLibrary = <<>>

\* The first call ended without a download link, the second with a failed
\* download, and nothing was added.
C26_Witness ==
    /\ videoAnswer[1] = "doneNoLink" /\ videoCall[1] = "rejected"
    /\ videoAnswer[2] = "done" /\ videoCall[2] = "rejected"
    /\ flowResult = [k \in Flows |-> "failed"]
    /\ videoLibrary = <<>>
    /\ ~loading


\* The two URLs are those of one animation asset of the library.
PairOfOneAnimation(videoUrl, audioUrl, library) ==
    \E anim \in SeqToSet(library) :
        anim.videoUrl = videoUrl /\ anim.audioUrl = audioUrl

\* C27: after every step, a non-null currentAudioUrl and currentVideoUrl
\* are the pair of one animation asset; a step that selects a library
\* video leaves currentAudioUrl null; a source button changes the
\* selection and neither URL nor any library.
C27_SelectionStep ==
    /\ currentAudioUrl' # NoUrl
           => PairOfOneAnimation(currentVideoUrl', currentAudioUrl',
                                 animationLibrary')
    /\ (/\ streamSource' = VIDEO_LIBRARY
        /\ currentVideoUrl' # currentVideoUrl)
           => /\ currentAudioUrl' = NoUrl
              /\ \E video \in SeqToSet(videoLibrary) :
                     currentVideoUrl' = video.url
    /\ (/\ streamSource' # streamSource
        /\ mounted'
        /\ streamSource' = WEBCAM \/ currentVideoUrl' = currentVideoUrl)
           => UNCHANGED <<currentVideoUrl, currentAudioUrl, videoLibrary,
                          animationLibrary, camVars>>

C27_AudioBelongsToVideo == [][C27_SelectionStep]_vars

\* An animation was selected after a video, then the webcam button was
\* clicked: the pair of the animation is still in place.
C27_Witness ==
    /\ streamSource = WEBCAM
    /\ currentAudioUrl # NoUrl
    /\ PairOfOneAnimation(currentVideoUrl, currentAudioUrl, animationLibrary)
    /\ videoLibrary # <<>>
    /\ preview.src = currentVideoUrl


\* C28: the video element's srcObject is the capture stream exactly when
\* the selection is WEBCAM and the stream is non-null, and src is then
\* empty; otherwise srcObject is null.
C28_OneSourceBound ==
    /\ preview.srcObject =
           IF streamSource = WEBCAM /\ stream # NoStream
           THEN stream ELSE NoStream
    /\ preview.srcObject # NoStream => preview.src = EmptySrc

\* The webcam is shown after a library video was: the video's URL is still
\* the current one and is not bound.
C28_Witness ==
    /\ streamSource = WEBCAM
    /\ stream # NoStream
    /\ preview.srcObject = stream
    /\ currentVideoUrl # NoUrl
    /\ preview.src = EmptySrc


\* The sequence is left as it is or gets one entry at its end.
KeptOrAppended(q, r) == r = q \/ IsAppend(q, r)

\* The step appends one entry of the given type to the log.
Logs(type) ==
    /\ IsAppend(history, history')
    /\ history'[Len(history')].type = type

\* C29: the four libraries and the history log only grow at their end, one
\* entry at a step; a step that adds a generated asset adds it to one
\* library and logs one entry of that library's type; a generation that
\* fails, and a click the form check rejects, leave every library and the
\* log as they are.
C29_Step ==
    /\ KeptOrAppended(videoLibrary, videoLibrary')
    /\ KeptOrAppended(audioLibrary, audioLibrary')
    /\ KeptOrAppended(animationLibrary, animationLibrary')
    /\ KeptOrAppended(overlayLibrary, overlayLibrary')
    /\ KeptOrAppended(history, history')
    /\ videoLibrary' # videoLibrary
           => /\ Logs("VIDEO")
              /\ UNCHANGED <<audioLibrary, animationLibrary, overlayLibrary>>
    /\ audioLibrary' # audioLibrary
           => /\ Logs("AUDIO")
              /\ UNCHANGED <<videoLibrary, animationLibrary, overlayLibrary>>
    /\ animationLibrary' # animationLibrary
           => /\ Logs("ANIMATION")
              /\ UNCHANGED <<videoLibrary, audioLibrary, overlayLibrary>>
    /\ (\/ audioCall = "pending" /\ audioCall' = "none" /\ ttsText' # NoText
        \/ alertShown' # alertShown)
           => UNCHANGED <<videoLibrary, audioLibrary, animationLibrary,
                          overlayLibrary, history>>

C29_AppendOnly == [][C29_Step]_vars

\* A video was generated, then an audio whose handler has ended: two
\* assets, two entries.
C29_Witness ==
    /\ Len(videoLibrary) = 1
    /\ Len(audioLibrary) = 1
    /\ Len(history) = 2
    /\ history[1].type = "VIDEO"
    /\ history[2].type = "AUDIO"
    /\ audioCall = "none"
    /\ ~loading


\* The step logs that an overlay is shown or hidden.
LogsToggle ==
    /\ Logs("OVERLAY")
    /\ history'[Len(history')].description[1]
           \in {"Showing overlay", "Hiding overlay"}

\* C30: one overlay at most is active, and it is the one the preview shows;
\* a toggle of the active overlay leaves none active, a toggle of another
\* makes that one the active one, so a toggle changes whether its overlay
\* is active and two in a row restore it; a toggle leaves the selection,
\* the URLs, the stream flag, the libraries and the webcam as they are and
\* runs neither effect of the preview.
C30_ToggleStep ==
    /\ activeOverlayUrl' \in
           {NoUrl} \cup {o.url : o \in SeqToSet(overlayLibrary')}
    /\ mounted' => preview'.overlay = activeOverlayUrl'
    /\ LogsToggle <=> activeOverlayUrl' # activeOverlayUrl
    /\ LogsToggle =>
           \E overlay \in SeqToSet(overlayLibrary) :
               LET entry == history'[Len(history')]
               IN  /\ entry.description[2] = overlay.name
                   /\ activeOverlayUrl' =
                          IF activeOverlayUrl = overlay.url
                          THEN NoUrl ELSE overlay.url
                   /\ (activeOverlayUrl' = overlay.url)
                          # (activeOverlayUrl = overlay.url)
                   /\ entry.description[1] =
                          IF activeOverlayUrl' = NoUrl
                          THEN "Hiding overlay" ELSE "Showing overlay"
                   /\ UNCHANGED <<streamSource, currentVideoUrl,
                                  currentAudioUrl, isStreaming, videoLibrary,
                                  audioLibrary, animationLibrary,
                                  overlayLibrary, camVars>>
                   /\ preview' = Rerendered(preview, activeOverlayUrl',
                                            isStreaming)

C30_OneOverlayToggled == [][C30_ToggleStep]_vars

\* The second overlay was toggled while the first was shown, and replaced
\* it.
C30_Witness ==
    /\ Len(history) = 4
    /\ history[3].description = <<"Showing overlay", OverlayName(1)>>
    /\ history[4].description = <<"Showing overlay", OverlayName(2)>>
    /\ activeOverlayUrl = OverlayUrl(2)
    /\ preview.overlay = OverlayUrl(2)

=============================================================================
